---- MODULE Spec2Model ----
(***************************************************************************)
(* The validation engine of the data quality checker                        *)
(* (class DataQualityChecker of src/main.py): the two configuration         *)
(* loaders, the schema introspection, the per-field check dispatcher and    *)
(* the run orchestrator, over a relational data source whose queries may    *)
(* raise sqlite3.Error; and the sessions of the HTTP services of            *)
(* src/main.py and src/api_server.py that upload files to an engine, run it *)
(* and serve its reports.                                                   *)
(***************************************************************************)
EXTENDS Integers, Sequences, FiniteSets, TLC

VARIABLES
    checks_config,        \* self.checks_config: table -> field -> check flags
    system_codes_config,  \* self.system_codes_config: table -> field -> codes
    db,                   \* the data source behind self.db_connection
    sessions,             \* session_manager.sessions: session id -> session
    last,                 \* the call that completed last, with its arguments
    results               \* what that call returned

vars == <<checks_config, system_codes_config, db, sessions, last, results>>

\* SessionManager.__init__: no session
NoSessions == <<>>

(***************************************************************************)
(* Bounds of the model.                                                     *)
(***************************************************************************)
\* rows of a configuration source (a CSV file)
MaxSrcRows == 2
\* rows of a table of the data source
MaxRows == 2
\* qualifying rows a sampled column holds beyond the sample limit
MaxBeyond == 1
\* rows of a table checked for duplicates
MaxDupRows == 4
\* runs in a row that are told apart
MaxRuns == 2

(***************************************************************************)
(* Strings.  A Python str is a TLA+ string, read character by character.    *)
(***************************************************************************)
Whitespace == {" ", "\t", "\n", "\r"}

CharAt(s, i) == SubSeq(s, i, i)

\* str.strip(): drop the leading and the trailing whitespace
RECURSIVE LStrip(_)
LStrip(s) ==
    IF Len(s) > 0 /\ CharAt(s, 1) \in Whitespace
    THEN LStrip(SubSeq(s, 2, Len(s)))
    ELSE s

RECURSIVE RStrip(_)
RStrip(s) ==
    IF Len(s) > 0 /\ CharAt(s, Len(s)) \in Whitespace
    THEN RStrip(SubSeq(s, 1, Len(s) - 1))
    ELSE s

\* a strip that leaves the trailing whitespace
StripLeftOnly(s) == LStrip(s)

Strip(s) == RStrip(LStrip(s))

(***************************************************************************)
(* A Python dict keeps its keys in insertion order: a sequence of           *)
(* [k, v] entries with distinct keys.                                       *)
(***************************************************************************)
EmptyDict == <<>>

DictKeys(d) == {d[i].k : i \in DOMAIN d}

DictHas(d, key) == key \in DictKeys(d)

DictGet(d, key) == d[CHOOSE i \in DOMAIN d : d[i].k = key].v

\* d[key] = value: an existing key keeps its position, a new key goes last
DictPut(d, key, value) ==
    IF DictHas(d, key)
    THEN [i \in DOMAIN d |-> IF d[i].k = key THEN [k |-> key, v |-> value] ELSE d[i]]
    ELSE Append(d, [k |-> key, v |-> value])

\* d.get(key, default)
DictGetOr(d, key, default) == IF DictHas(d, key) THEN DictGet(d, key) ELSE default

(***************************************************************************)
(* Configuration sources.  csv.DictReader yields one mapping per data row,  *)
(* from the names of the header row to the cells of the row; open() raises  *)
(* when the file cannot be read.                                            *)
(***************************************************************************)
FlagColumns ==
    {"special_characters_check", "null_check", "blank_check", "max_value_check",
     "min_value_check", "max_count_check", "email_check", "numeric_check",
     "system_codes_check", "language_check", "phone_number_check",
     "duplicate_check", "date_check"}

\* the columns load_checks_config reads from every row
RuleColumns == {"table_name", "field_name", "description"} \cup FlagColumns

\* the columns load_system_codes_config reads from every row
CodeColumns == {"table_name", "field_name", "valid_codes"}

\* a reading of the flags that trims them and takes "true" for "1" as well
ChecksOfRowLenient(row) ==
    [c \in {"description"} \cup FlagColumns |->
        IF c = "description" THEN row["description"]
        ELSE Strip(row[c]) \in {"1", "true"}]

\* the value stored for one field by load_checks_config
ChecksOfRow(row) ==
    [description              |-> row["description"],
     special_characters_check |-> row["special_characters_check"] = "1",
     null_check               |-> row["null_check"] = "1",
     blank_check              |-> row["blank_check"] = "1",
     max_value_check          |-> row["max_value_check"] = "1",
     min_value_check          |-> row["min_value_check"] = "1",
     max_count_check          |-> row["max_count_check"] = "1",
     email_check              |-> row["email_check"] = "1",
     numeric_check            |-> row["numeric_check"] = "1",
     system_codes_check       |-> row["system_codes_check"] = "1",
     language_check           |-> row["language_check"] = "1",
     phone_number_check       |-> row["phone_number_check"] = "1",
     duplicate_check          |-> row["duplicate_check"] = "1",
     date_check               |-> row["date_check"] = "1"]

\* a row loop that keeps the flags a field already has
RECURSIVE LoadChecksRowsFirstWins(_, _, _)
LoadChecksRowsFirstWins(cfg, rows, i) ==
    IF i > Len(rows) THEN [cfg |-> cfg, ok |-> TRUE]
    ELSE LET row == rows[i] IN
         IF ~(RuleColumns \subseteq DOMAIN row)
         THEN [cfg |-> cfg, ok |-> FALSE]
         ELSE LET table_name == Strip(row["table_name"])
                  field_name == Strip(row["field_name"])
                  cfg1 == IF DictHas(cfg, table_name) THEN cfg
                          ELSE DictPut(cfg, table_name, EmptyDict)
                  fields == DictGet(cfg1, table_name)
              IN LoadChecksRowsFirstWins(
                     IF DictHas(fields, field_name) THEN cfg1
                     ELSE DictPut(cfg1, table_name,
                                  DictPut(fields, field_name, ChecksOfRow(row))),
                     rows, i + 1)

\* One pass of the row loop of load_checks_config over rows[i..], writing
\* into cfg as it goes; a missing key raises KeyError, which ends the load.
RECURSIVE LoadChecksRows(_, _, _)
LoadChecksRows(cfg, rows, i) ==
    IF i > Len(rows) THEN [cfg |-> cfg, ok |-> TRUE]
    ELSE LET row == rows[i] IN
         IF ~({"table_name", "field_name"} \subseteq DOMAIN row)
         THEN [cfg |-> cfg, ok |-> FALSE]
         ELSE LET table_name == Strip(row["table_name"])
                  field_name == Strip(row["field_name"])
                  cfg1 == IF DictHas(cfg, table_name) THEN cfg
                          ELSE DictPut(cfg, table_name, EmptyDict)
              IN IF ~(RuleColumns \subseteq DOMAIN row)
                 THEN [cfg |-> cfg1, ok |-> FALSE]
                 ELSE LoadChecksRows(
                          DictPut(cfg1, table_name,
                                  DictPut(DictGet(cfg1, table_name), field_name,
                                          ChecksOfRow(row))),
                          rows, i + 1)

\* load_checks_config: the configuration it leaves and the value it returns
LoadChecksConfig(cfg, src) ==
    IF ~src.readable THEN [cfg |-> cfg, ok |-> FALSE]
    ELSE LoadChecksRows(cfg, src.rows, 1)

\* valid_codes_str.split(','): the pieces between the commas, in order
RECURSIVE SplitComma(_, _)
SplitComma(s, cur) ==
    IF Len(s) = 0 THEN <<cur>>
    ELSE IF CharAt(s, 1) = ","
         THEN <<cur>> \o SplitComma(SubSeq(s, 2, Len(s)), "")
         ELSE SplitComma(SubSeq(s, 2, Len(s)), cur \o CharAt(s, 1))

\* a split that trims the pieces and keeps the empty ones
ValidCodesOfKeepEmpty(valid_codes_str) ==
    LET parts == SplitComma(valid_codes_str, "")
    IN [i \in DOMAIN parts |-> Strip(parts[i])]

\* [code.strip() for code in valid_codes_str.split(',') if code.strip()]
ValidCodesOf(valid_codes_str) ==
    LET parts == SplitComma(valid_codes_str, "")
        keep == SelectSeq(parts, LAMBDA code : Strip(code) # "")
    IN [i \in DOMAIN keep |-> Strip(keep[i])]

\* One pass of the row loop of load_system_codes_config over rows[i..].
RECURSIVE LoadCodesRows(_, _, _)
LoadCodesRows(cfg, rows, i) ==
    IF i > Len(rows) THEN [cfg |-> cfg, ok |-> TRUE]
    ELSE LET row == rows[i] IN
         IF ~(CodeColumns \subseteq DOMAIN row)
         THEN [cfg |-> cfg, ok |-> FALSE]
         ELSE LET table_name == Strip(row["table_name"])
                  field_name == Strip(row["field_name"])
                  valid_codes == ValidCodesOf(row["valid_codes"])
                  cfg1 == IF DictHas(cfg, table_name) THEN cfg
                          ELSE DictPut(cfg, table_name, EmptyDict)
              IN LoadCodesRows(
                     DictPut(cfg1, table_name,
                             DictPut(DictGet(cfg1, table_name), field_name, valid_codes)),
                     rows, i + 1)

\* load_system_codes_config: the configuration it leaves and the value it
\* returns; the old configuration is dropped before the file is opened
LoadSystemCodesConfig(cfg, src) ==
    IF ~src.readable THEN [cfg |-> EmptyDict, ok |-> FALSE]
    ELSE LoadCodesRows(EmptyDict, src.rows, 1)

(***************************************************************************)
(* The data source: the tables that exist, each with its columns and its    *)
(* rows (a row maps every column to a value).  NULL is SQL's NULL; every    *)
(* other value is a string.  A query may raise sqlite3.Error: fault names   *)
(* the query of a run that does (NoFault: none).                            *)
(***************************************************************************)
NULL == "<NULL>"

NoFault == [table |-> "", field |-> "", query |-> "none", error |-> ""]

Raises(fault, table_name, field_name, query) ==
    /\ fault.query = query
    /\ fault.table = table_name
    /\ fault.field = field_name

\* the values of one column, in row order
Column(dbv, table_name, field_name) ==
    LET rows == dbv[table_name].rows
    IN [i \in DOMAIN rows |-> rows[i][field_name]]

\* a lookup that finds every table
TableExistsAlways(dbv, table_name, fault) == TRUE

\* _table_exists: a failing lookup is answered False
TableExists(dbv, table_name, fault) ==
    IF Raises(fault, table_name, "", "table_exists") THEN FALSE
    ELSE table_name \in DOMAIN dbv

\* _column_exists: a failing PRAGMA table_info is answered False
ColumnExists(dbv, table_name, column_name, fault) ==
    IF Raises(fault, table_name, column_name, "table_info") THEN FALSE
    ELSE /\ table_name \in DOMAIN dbv
         /\ column_name \in dbv[table_name].cols

\* SELECT COUNT(*) FROM [table]
CountRows(dbv, table_name) == Len(dbv[table_name].rows)

\* a NULL count that takes the empty string for NULL
CountNullOrBlank(dbv, table_name, field_name) ==
    Len(SelectSeq(Column(dbv, table_name, field_name), LAMBDA v : v = NULL \/ v = ""))

\* SELECT COUNT(*) ... WHERE [field] IS NULL
CountNull(dbv, table_name, field_name) ==
    Len(SelectSeq(Column(dbv, table_name, field_name), LAMBDA v : v = NULL))

\* a blank count that takes NULL for the empty string
CountBlankOrNull(dbv, table_name, field_name) ==
    Len(SelectSeq(Column(dbv, table_name, field_name), LAMBDA v : v = NULL \/ v = ""))

\* SELECT COUNT(*) ... WHERE [field] = ''
CountBlank(dbv, table_name, field_name) ==
    Len(SelectSeq(Column(dbv, table_name, field_name), LAMBDA v : v # NULL /\ v = ""))

\* a selection of the rows WHERE [field] IS NOT NULL, the blank ones included
NonEmptyKeepsBlank(dbv, table_name, field_name) ==
    SelectSeq(Column(dbv, table_name, field_name), LAMBDA v : v # NULL)

\* the rows WHERE [field] IS NOT NULL AND [field] != ''
NonEmpty(dbv, table_name, field_name) ==
    SelectSeq(Column(dbv, table_name, field_name), LAMBDA v : v # NULL /\ v # "")

\* a LIMIT that lets one row more through
LimitOneMore(seq, n) == SubSeq(seq, 1, IF Len(seq) < n + 1 THEN Len(seq) ELSE n + 1)

\* LIMIT n
Limit(seq, n) == SubSeq(seq, 1, IF Len(seq) < n THEN Len(seq) ELSE n)

\* SELECT DISTINCT: each value once, in order of first appearance
RECURSIVE Distinct(_)
Distinct(seq) ==
    IF Len(seq) <= 1 THEN seq
    ELSE LET half == Len(seq) \div 2
             front == SubSeq(seq, 1, half)
             back == SubSeq(seq, half + 1, Len(seq))
             seen == {front[i] : i \in DOMAIN front}
         IN Distinct(front) \o SelectSeq(Distinct(back), LAMBDA v : v \notin seen)

\* a grouping that keeps the NULL group
DuplicateGroupsWithNull(dbv, table_name, field_name) ==
    LET col == Column(dbv, table_name, field_name)
        vals == {col[i] : i \in DOMAIN col}
        count(v) == Cardinality({i \in DOMAIN col : col[i] = v})
    IN {<<v, count(v)>> : v \in {w \in vals : count(w) > 1}}

\* GROUP BY [field] HAVING COUNT(*) > 1 over the non-NULL values: the value
\* groups with their counts
DuplicateGroups(dbv, table_name, field_name) ==
    LET col == Column(dbv, table_name, field_name)
        vals == {col[i] : i \in DOMAIN col} \ {NULL}
        count(v) == Cardinality({i \in DOMAIN col : col[i] = v})
    IN {<<v, count(v)>> : v \in {w \in vals : count(w) > 1}}

\* a total that counts one duplicate for each group
SumOnePerGroup(groups) == Cardinality(groups)

RECURSIVE SumExcess(_)
\* sum(count - 1 for _, count in duplicates)
SumExcess(groups) ==
    IF groups = {} THEN 0
    ELSE LET g == CHOOSE x \in groups : TRUE
         IN (g[2] - 1) + SumExcess(groups \ {g})

(***************************************************************************)
(* The validators the dispatcher calls.                                     *)
(***************************************************************************)
LowerLetters == "abcdefghijklmnopqrstuvwxyz"
UpperLetters == "ABCDEFGHIJKLMNOPQRSTUVWXYZ"
Digits == "0123456789"

CharsOf(s) == {CharAt(s, i) : i \in 1..Len(s)}

Letter == CharsOf(LowerLetters) \cup CharsOf(UpperLetters)

\* str.upper() left out
NoUpper(s) == s

\* str.upper() on one character
UpperChar(c) ==
    IF c \in CharsOf(LowerLetters)
    THEN CharAt(UpperLetters, CHOOSE i \in 1..Len(LowerLetters) : CharAt(LowerLetters, i) = c)
    ELSE c

RECURSIVE Upper(_)
Upper(s) == IF Len(s) = 0 THEN "" ELSE UpperChar(CharAt(s, 1)) \o Upper(SubSeq(s, 2, Len(s)))

AllIn(s, class) == \A i \in 1..Len(s) : CharAt(s, i) \in class

\* _is_valid_email: ^[a-zA-Z0-9._%+-]+@[a-zA-Z0-9.-]+\.[a-zA-Z]{2,}$
IsValidEmail(email) ==
    \E at \in 1..Len(email) : \E dot \in 1..Len(email) :
        /\ CharAt(email, at) = "@"
        /\ CharAt(email, dot) = "."
        /\ 1 < at /\ at + 1 < dot /\ dot + 2 <= Len(email)
        /\ AllIn(SubSeq(email, 1, at - 1),
                 Letter \cup CharsOf(Digits) \cup {".", "_", "%", "+", "-"})
        /\ AllIn(SubSeq(email, at + 1, dot - 1), Letter \cup CharsOf(Digits) \cup {".", "-"})
        /\ AllIn(SubSeq(email, dot + 1, Len(email)), Letter)

\* a lookup that falls back on the codes of the table's first declared field
GetValidSystemCodesAnyField(codes, table_name, field_name) ==
    LET fields == DictGetOr(codes, table_name, EmptyDict)
    IN IF DictHas(fields, field_name) THEN DictGet(fields, field_name)
       ELSE IF fields # EmptyDict THEN fields[1].v
       ELSE <<>>

\* _get_valid_system_codes
GetValidSystemCodes(codes, table_name, field_name) ==
    DictGetOr(DictGetOr(codes, table_name, EmptyDict), field_name, <<>>)

(***************************************************************************)
(* The check dispatcher, _run_field_checks.  Each check is a step that      *)
(* appends its Finding to the field's results, or raises sqlite3.Error from *)
(* one of its queries before it appends anything.                           *)
(***************************************************************************)
\* the first LIMIT rows (email) or distinct values (system codes) inspected
SampleLimit == 100

Finding(table_name, field_name, check_type, status, message) ==
    [table |-> table_name, field |-> field_name, check_type |-> check_type,
     status |-> status, message |-> message]

Done(out) == [out |-> out, raised |-> FALSE]
Raised == [out |-> <<>>, raised |-> TRUE]

\* a check that runs whatever its flag says
EnabledAlways(checks, check) == TRUE

\* checks.get(check, False)
Enabled(checks, check) == IF check \in DOMAIN checks THEN checks[check] ELSE FALSE

NullCheck(dbv, table_name, field_name, checks, total_rows, fault) ==
    IF ~Enabled(checks, "null_check") THEN Done(<<>>)
    ELSE IF Raises(fault, table_name, field_name, "count_null") THEN Raised
    ELSE LET null_count == CountNull(dbv, table_name, field_name) IN
         IF null_count > 0
         THEN Done(<<Finding(table_name, field_name, "null_check", "FAIL",
                        "Found " \o ToString(null_count) \o " NULL values out of "
                        \o ToString(total_rows) \o " total rows")>>)
         ELSE Done(<<Finding(table_name, field_name, "null_check", "PASS",
                        "No NULL values found")>>)

\* a blank check whose threshold is off by one: blank_count >= 0
BlankCheckAtLeastZero(dbv, table_name, field_name, checks, total_rows, fault) ==
    IF ~Enabled(checks, "blank_check") THEN Done(<<>>)
    ELSE IF Raises(fault, table_name, field_name, "count_blank") THEN Raised
    ELSE LET blank_count == CountBlank(dbv, table_name, field_name) IN
         IF blank_count >= 0
         THEN Done(<<Finding(table_name, field_name, "blank_check", "FAIL",
                        "Found " \o ToString(blank_count) \o " blank values out of "
                        \o ToString(total_rows) \o " total rows")>>)
         ELSE Done(<<Finding(table_name, field_name, "blank_check", "PASS",
                        "No blank values found")>>)

BlankCheck(dbv, table_name, field_name, checks, total_rows, fault) ==
    IF ~Enabled(checks, "blank_check") THEN Done(<<>>)
    ELSE IF Raises(fault, table_name, field_name, "count_blank") THEN Raised
    ELSE LET blank_count == CountBlank(dbv, table_name, field_name) IN
         IF blank_count > 0
         THEN Done(<<Finding(table_name, field_name, "blank_check", "FAIL",
                        "Found " \o ToString(blank_count) \o " blank values out of "
                        \o ToString(total_rows) \o " total rows")>>)
         ELSE Done(<<Finding(table_name, field_name, "blank_check", "PASS",
                        "No blank values found")>>)

EmailCheck(dbv, table_name, field_name, checks, fault) ==
    IF ~Enabled(checks, "email_check") THEN Done(<<>>)
    ELSE IF Raises(fault, table_name, field_name, "count_email") THEN Raised
    ELSE LET non_null_count == Len(NonEmpty(dbv, table_name, field_name)) IN
         IF non_null_count = 0 THEN Done(<<>>)
         ELSE IF Raises(fault, table_name, field_name, "select_email") THEN Raised
         ELSE LET values == Limit(NonEmpty(dbv, table_name, field_name), SampleLimit)
                  invalid_emails ==
                      SelectSeq(values, LAMBDA value : ~IsValidEmail(Strip(value)))
              IN IF invalid_emails # <<>>
                 THEN Done(<<Finding(table_name, field_name, "email_check", "FAIL",
                                "Found " \o ToString(Len(invalid_emails))
                                \o " invalid email formats out of "
                                \o ToString(non_null_count) \o " values")>>)
                 ELSE Done(<<Finding(table_name, field_name, "email_check", "PASS",
                                "All " \o ToString(non_null_count)
                                \o " email formats appear valid")>>)

SystemCodesCheck(dbv, codes, table_name, field_name, checks, fault) ==
    IF ~Enabled(checks, "system_codes_check") THEN Done(<<>>)
    ELSE IF Raises(fault, table_name, field_name, "count_codes") THEN Raised
    ELSE LET non_null_count == Len(NonEmpty(dbv, table_name, field_name)) IN
         IF non_null_count = 0 THEN Done(<<>>)
         ELSE IF Raises(fault, table_name, field_name, "select_codes") THEN Raised
         ELSE LET values == Limit(Distinct(NonEmpty(dbv, table_name, field_name)),
                                  SampleLimit)
                  valid_codes_list == GetValidSystemCodes(codes, table_name, field_name)
                  valid_codes_upper ==
                      {Upper(valid_codes_list[i]) : i \in DOMAIN valid_codes_list}
                  invalid_system_codes ==
                      SelectSeq(values, LAMBDA value :
                          /\ valid_codes_list # <<>>
                          /\ Upper(Strip(value)) \notin valid_codes_upper)
              IN IF invalid_system_codes # <<>>
                 THEN Done(<<Finding(table_name, field_name, "system_codes_check", "FAIL",
                                "Found " \o ToString(Len(invalid_system_codes))
                                \o " invalid system codes out of "
                                \o ToString(non_null_count) \o " values"
                                \o (IF valid_codes_list # <<>>
                                    THEN " (Valid codes: " \o ToString(Len(valid_codes_list))
                                         \o " defined)"
                                    ELSE ""))>>)
                 ELSE Done(<<Finding(table_name, field_name, "system_codes_check", "PASS",
                                "All " \o ToString(non_null_count)
                                \o " values are valid system codes")>>)

DuplicateCheck(dbv, table_name, field_name, checks, fault) ==
    IF ~Enabled(checks, "duplicate_check") THEN Done(<<>>)
    ELSE IF Raises(fault, table_name, field_name, "select_duplicates") THEN Raised
    ELSE LET duplicates == DuplicateGroups(dbv, table_name, field_name) IN
         IF duplicates # {}
         THEN Done(<<Finding(table_name, field_name, "duplicate_check", "FAIL",
                        "Found " \o ToString(SumExcess(duplicates))
                        \o " duplicate values across "
                        \o ToString(Cardinality(duplicates)) \o " distinct values")>>)
         ELSE Done(<<Finding(table_name, field_name, "duplicate_check", "PASS",
                        "No duplicate values found")>>)

\* the except clause: what was appended so far, then the database_error
DatabaseError(table_name, field_name, fault) ==
    Finding(table_name, field_name, "database_error", "ERROR",
            "Database error: " \o fault.error)

\* steps whose failures are passed over in silence
RECURSIVE RunStepsSkipFailed(_, _, _, _, _, _)
RunStepsSkipFailed(steps, i, acc, table_name, field_name, fault) ==
    IF i > Len(steps) THEN acc
    ELSE RunStepsSkipFailed(steps, i + 1, acc \o steps[i].out, table_name, field_name,
                            fault)

\* a dispatcher that reports a failed query in place of the field's Findings
RunStepsDropEarlier(steps, i, acc, table_name, field_name, fault) ==
    IF \E n \in i..Len(steps) : steps[n].raised
    THEN <<DatabaseError(table_name, field_name, fault)>>
    ELSE RunStepsSkipFailed(steps, i, acc, table_name, field_name, fault)

\* the steps in program order; the first that raises ends the field
RECURSIVE RunSteps(_, _, _, _, _, _)
RunSteps(steps, i, acc, table_name, field_name, fault) ==
    IF i > Len(steps) THEN acc
    ELSE IF steps[i].raised
         THEN Append(acc, DatabaseError(table_name, field_name, fault))
         ELSE RunSteps(steps, i + 1, acc \o steps[i].out, table_name, field_name, fault)

\* the Finding of a field whose column does not exist
ColumnMissing(table_name, field_name) ==
    <<Finding(table_name, field_name, "column_existence", "FAIL",
              "Column '" \o field_name \o "' does not exist in table '"
              \o table_name \o "'")>>

\* the Finding of a field of a table without rows
NoData(table_name, field_name) ==
    <<Finding(table_name, field_name, "data_existence", "WARNING",
              "Table '" \o table_name \o "' has no data")>>

\* a dispatcher that also evaluates max_count_check
FieldStepsWithMaxCount(dbv, codes, table_name, field_name, checks, total_rows, fault) ==
    RunSteps(
        <<NullCheck(dbv, table_name, field_name, checks, total_rows, fault),
          BlankCheck(dbv, table_name, field_name, checks, total_rows, fault),
          EmailCheck(dbv, table_name, field_name, checks, fault),
          SystemCodesCheck(dbv, codes, table_name, field_name, checks, fault),
          DuplicateCheck(dbv, table_name, field_name, checks, fault),
          IF Enabled(checks, "max_count_check")
          THEN Done(<<Finding(table_name, field_name, "max_count_check", "PASS", "")>>)
          ELSE Done(<<>>)>>,
        1, <<>>, table_name, field_name, fault)

\* the checks of a field of a table with rows, in program order
FieldSteps(dbv, codes, table_name, field_name, checks, total_rows, fault) ==
    RunSteps(
        <<NullCheck(dbv, table_name, field_name, checks, total_rows, fault),
          BlankCheck(dbv, table_name, field_name, checks, total_rows, fault),
          EmailCheck(dbv, table_name, field_name, checks, fault),
          SystemCodesCheck(dbv, codes, table_name, field_name, checks, fault),
          DuplicateCheck(dbv, table_name, field_name, checks, fault)>>,
        1, <<>>, table_name, field_name, fault)

\* a dispatcher that counts the rows before it looks for the column
RunFieldChecksCountFirst(dbv, codes, table_name, field_name, checks, fault) ==
    IF table_name \in DOMAIN dbv /\ CountRows(dbv, table_name) = 0
    THEN NoData(table_name, field_name)
    ELSE IF ~ColumnExists(dbv, table_name, field_name, fault)
    THEN ColumnMissing(table_name, field_name)
    ELSE IF Raises(fault, table_name, field_name, "count_rows")
    THEN <<DatabaseError(table_name, field_name, fault)>>
    ELSE FieldSteps(dbv, codes, table_name, field_name, checks,
                    CountRows(dbv, table_name), fault)

\* a dispatcher that does not stop at a table without rows
RunFieldChecksNoEmptyStop(dbv, codes, table_name, field_name, checks, fault) ==
    IF ~ColumnExists(dbv, table_name, field_name, fault)
    THEN ColumnMissing(table_name, field_name)
    ELSE IF Raises(fault, table_name, field_name, "count_rows")
    THEN <<DatabaseError(table_name, field_name, fault)>>
    ELSE FieldSteps(dbv, codes, table_name, field_name, checks,
                    CountRows(dbv, table_name), fault)

RunFieldChecks(dbv, codes, table_name, field_name, checks, fault) ==
    IF ~ColumnExists(dbv, table_name, field_name, fault)
    THEN ColumnMissing(table_name, field_name)
    ELSE IF Raises(fault, table_name, field_name, "count_rows")
    THEN <<DatabaseError(table_name, field_name, fault)>>
    ELSE LET total_rows == CountRows(dbv, table_name) IN
         IF total_rows = 0
         THEN NoData(table_name, field_name)
         ELSE FieldSteps(dbv, codes, table_name, field_name, checks, total_rows, fault)

(***************************************************************************)
(* The run orchestrator.  A report is a dict from table name to the list of *)
(* that table's Findings.                                                   *)
(***************************************************************************)
\* a loop over the fields that ends at the first field whose column is
\* missing or whose query failed
RECURSIVE TableResultsStopAtFailure(_, _, _, _, _, _)
TableResultsStopAtFailure(dbv, codes, table_name, fields, i, fault) ==
    IF i > Len(fields) THEN <<>>
    ELSE LET field_results ==
                 RunFieldChecks(dbv, codes, table_name, fields[i].k, fields[i].v, fault)
             failed == \E n \in DOMAIN field_results :
                           field_results[n].check_type \in
                               {"column_existence", "database_error"}
         IN IF failed THEN field_results
            ELSE field_results
                 \o TableResultsStopAtFailure(dbv, codes, table_name, fields, i + 1, fault)

\* a loop that reports the fields last to first
RECURSIVE TableResultsLastFirst(_, _, _, _, _, _)
TableResultsLastFirst(dbv, codes, table_name, fields, i, fault) ==
    IF i > Len(fields) THEN <<>>
    ELSE TableResultsLastFirst(dbv, codes, table_name, fields, i + 1, fault)
         \o RunFieldChecks(dbv, codes, table_name, fields[i].k, fields[i].v, fault)

\* the loop over fields.items(): the Findings of the fields from i on
RECURSIVE TableResults(_, _, _, _, _, _)
TableResults(dbv, codes, table_name, fields, i, fault) ==
    IF i > Len(fields) THEN <<>>
    ELSE RunFieldChecks(dbv, codes, table_name, fields[i].k, fields[i].v, fault)
         \o TableResults(dbv, codes, table_name, fields, i + 1, fault)

\* a loop over the tables that keeps a table without Findings in the report
RECURSIVE RunTablesKeepEmpty(_, _, _, _, _)
RunTablesKeepEmpty(cfg, codes, dbv, i, fault) ==
    IF i > Len(cfg) THEN EmptyDict
    ELSE LET table_name == cfg[i].k
             rest == RunTablesKeepEmpty(cfg, codes, dbv, i + 1, fault)
         IN IF ~TableExists(dbv, table_name, fault) THEN rest
            ELSE <<[k |-> table_name,
                    v |-> TableResults(dbv, codes, table_name, cfg[i].v, 1, fault)]>>
                 \o rest

\* the loop over checks_config.items(): the report of the tables from i on
RECURSIVE RunTables(_, _, _, _, _)
RunTables(cfg, codes, dbv, i, fault) ==
    IF i > Len(cfg) THEN EmptyDict
    ELSE LET table_name == cfg[i].k
             rest == RunTables(cfg, codes, dbv, i + 1, fault)
         IN IF ~TableExists(dbv, table_name, fault) THEN rest
            ELSE LET table_results ==
                         TableResults(dbv, codes, table_name, cfg[i].v, 1, fault)
                 IN IF table_results # <<>>
                    THEN <<[k |-> table_name, v |-> table_results]>> \o rest
                    ELSE rest

RunAllChecks(cfg, codes, dbv, fault) ==
    IF cfg = EmptyDict THEN EmptyDict
    ELSE RunTables(cfg, codes, dbv, 1, fault)

\* a run for one table that does not look the table up first
RunChecksForSpecificTableUnchecked(cfg, codes, dbv, table_name, fault) ==
    IF ~DictHas(cfg, table_name) THEN EmptyDict
    ELSE LET table_results ==
                 TableResults(dbv, codes, table_name, DictGet(cfg, table_name), 1, fault)
         IN IF table_results # <<>>
            THEN <<[k |-> table_name, v |-> table_results]>>
            ELSE EmptyDict

RunChecksForSpecificTable(cfg, codes, dbv, table_name, fault) ==
    IF ~DictHas(cfg, table_name) THEN EmptyDict
    ELSE IF ~TableExists(dbv, table_name, fault) THEN EmptyDict
    ELSE LET table_results ==
                 TableResults(dbv, codes, table_name, DictGet(cfg, table_name), 1, fault)
         IN IF table_results # <<>>
            THEN <<[k |-> table_name, v |-> table_results]>>
            ELSE EmptyDict

(***************************************************************************)
(* The inputs the engine is run on: table and field names, configuration    *)
(* sources, data sources and query failures.                                *)
(***************************************************************************)
Tables == {"users", "orders"}
Fields == {"email", "code"}
Values == {NULL, "", "a@b.com", "bad"}

SeqsUpTo(S, n) == UNION {[1..k -> S] : k \in 0..n}

\* a row of a rule source: the flag columns in on hold "1", the others off
RuleRow(table_name, field_name, on, off) ==
    [c \in RuleColumns |->
        IF c = "table_name" THEN table_name
        ELSE IF c = "field_name" THEN field_name
        ELSE IF c = "description" THEN "d"
        ELSE IF c \in on THEN "1" ELSE off]

\* a row of a code-list source
CodeRow(table_name, field_name, valid_codes) ==
    [c \in CodeColumns |->
        IF c = "table_name" THEN table_name
        ELSE IF c = "field_name" THEN field_name
        ELSE valid_codes]

\* a source whose header lacks the columns in drop
Source(columns, drop, rows) ==
    [readable |-> TRUE, header |-> columns \ drop,
     rows |-> [i \in DOMAIN rows |-> [c \in columns \ drop |-> rows[i][c]]]]

Unreadable == [readable |-> FALSE, header |-> {}, rows |-> <<>>]

RuleRowChoices ==
    {RuleRow("users", "email", {"null_check", "blank_check"}, "0"),
     RuleRow("users", "email", {}, "0"),
     RuleRow("orders", "code", {"duplicate_check"}, "0")}

RuleSources ==
    {Unreadable} \cup
    {Source(RuleColumns, drop, rows) :
        drop \in {{}, {"description"}, {"date_check"}, {"table_name"}},
        rows \in SeqsUpTo(RuleRowChoices, MaxSrcRows)}

CodeRowChoices ==
    {CodeRow("users", "email", "AB,cd"),
     CodeRow("users", "email", " a@b.com ,, x"),
     CodeRow("orders", "code", "")}

CodeSources ==
    {Unreadable} \cup
    {Source(CodeColumns, drop, rows) :
        drop \in {{}, {"valid_codes"}},
        rows \in SeqsUpTo(CodeRowChoices, MaxSrcRows)}

\* the flag sets of the configurations the engine is run with
FlagSets ==
    {{}, {"null_check"}, {"blank_check"}, {"null_check", "blank_check"},
     {"email_check"}, {"system_codes_check"}, {"duplicate_check"},
     {"numeric_check"},
     {"language_check", "phone_number_check", "date_check", "special_characters_check"},
     {"max_value_check", "min_value_check", "max_count_check"},
     {"null_check", "blank_check", "email_check", "system_codes_check",
      "duplicate_check"},
     FlagColumns}

\* the rule sources of the configurations the engine is run with: one field,
\* or the field email of users followed by a second field
RunSources ==
    {Source(RuleColumns, {}, <<RuleRow("users", f, on, "0")>>) :
        f \in Fields, on \in FlagSets}
    \cup
    {Source(RuleColumns, {}, <<RuleRow("orders", f, {"null_check"}, "0")>>) :
        f \in Fields}
    \cup
    {Source(RuleColumns, {}, <<RuleRow("users", "email", on, "0"),
                               RuleRow(t, "code", {"null_check"}, "0")>>) :
        t \in Tables, on \in {{"null_check", "blank_check"}, {"duplicate_check"}}}

RunCodeSources ==
    {Source(CodeColumns, {}, <<>>),
     Source(CodeColumns, {}, <<CodeRow("users", "email", "A@B.com")>>)}

\* a data source holding the table users with the column email
UsersTable(vals) ==
    "users" :> [cols |-> {"email"},
                rows |-> [i \in DOMAIN vals |-> [c \in {"email"} |-> vals[i]]]]

\* the data sources: no table, or the table users with up to MaxRows rows,
\* or with the three rows NULL, '' and 'a@b.com'
DataSources ==
    {<<>>}
    \cup {UsersTable(vals) : vals \in SeqsUpTo(Values, MaxRows)}
    \cup {UsersTable(<<NULL, "", "a@b.com">>)}

\* the queries of a run, by the name the model gives each
FieldQueries ==
    {"table_info", "count_rows", "count_null", "count_blank", "count_email",
     "select_email", "count_codes", "select_codes", "select_duplicates"}

Faults ==
    {NoFault}
    \cup {[table |-> "users", field |-> "email", query |-> q, error |-> "e"] :
            q \in FieldQueries}
    \cup {[table |-> "users", field |-> "", query |-> "table_exists", error |-> "e"]}

(***************************************************************************)
(* The engine's operations.                                                 *)
(***************************************************************************)
load_checks_config(src) ==
    LET r == LoadChecksConfig(checks_config, src) IN
    /\ checks_config' = r.cfg
    /\ results' = r.ok
    /\ last' = [op |-> "load_checks_config", src |-> src, before |-> checks_config]
    /\ UNCHANGED <<system_codes_config, db, sessions>>

load_system_codes_config(src) ==
    LET r == LoadSystemCodesConfig(system_codes_config, src) IN
    /\ system_codes_config' = r.cfg
    /\ results' = r.ok
    /\ last' = [op |-> "load_system_codes_config", src |-> src,
                before |-> system_codes_config]
    /\ UNCHANGED <<checks_config, db, sessions>>

\* the record of a call, numbered when the runs are counted
Counted(call) ==
    IF "runs" \in DOMAIN last
    THEN call @@ [runs |-> IF last.runs < MaxRuns THEN last.runs + 1 ELSE MaxRuns]
    ELSE call

\* a run that leaves the engine without its RuleSet
run_all_checks_forgetting(fault) ==
    /\ results' = RunAllChecks(checks_config, system_codes_config, db, fault)
    /\ last' = Counted([op |-> "run_all_checks", table |-> "", fault |-> fault])
    /\ checks_config' = EmptyDict
    /\ UNCHANGED <<system_codes_config, db, sessions>>

run_all_checks(fault) ==
    /\ results' = RunAllChecks(checks_config, system_codes_config, db, fault)
    /\ last' = Counted([op |-> "run_all_checks", table |-> "", fault |-> fault])
    /\ UNCHANGED <<checks_config, system_codes_config, db, sessions>>

\* a run of one table that leaves the engine without its CodeList
run_checks_for_specific_table_consuming(table_name, fault) ==
    /\ results' = RunChecksForSpecificTable(checks_config, system_codes_config, db,
                                            table_name, fault)
    /\ last' = Counted([op |-> "run_checks_for_specific_table", table |-> table_name,
                        fault |-> fault])
    /\ system_codes_config' = EmptyDict
    /\ UNCHANGED <<checks_config, db, sessions>>

run_checks_for_specific_table(table_name, fault) ==
    /\ results' = RunChecksForSpecificTable(checks_config, system_codes_config, db,
                                            table_name, fault)
    /\ last' = Counted([op |-> "run_checks_for_specific_table", table |-> table_name,
                        fault |-> fault])
    /\ UNCHANGED <<checks_config, system_codes_config, db, sessions>>

\* DataQualityChecker.__init__ on a connection to a data source
Constructed(sources) ==
    /\ sessions = NoSessions
    /\ db \in sources
    /\ checks_config = EmptyDict
    /\ system_codes_config = EmptyDict
    /\ last = [op |-> "init"]
    /\ results = <<>>

(***************************************************************************)
(* SpecRules: the rule configuration is loaded again and again.             *)
(***************************************************************************)
InitRules == Constructed({<<>>})

NextRules == \E src \in RuleSources : load_checks_config(src)

SpecRules == InitRules /\ [][NextRules]_vars

(***************************************************************************)
(* SpecCodes: the code-list configuration is loaded again and again.        *)
(***************************************************************************)
InitCodes == Constructed({<<>>})

NextCodes == \E src \in CodeSources : load_system_codes_config(src)

SpecCodes == InitCodes /\ [][NextCodes]_vars

(***************************************************************************)
(* Spec: an engine whose two configurations were loaded once is run, on     *)
(* all tables or on one, while its queries succeed or one of them fails.    *)
(***************************************************************************)
Init ==
    /\ sessions = NoSessions
    /\ db \in DataSources
    /\ checks_config \in {LoadChecksConfig(EmptyDict, src).cfg : src \in RunSources}
    /\ system_codes_config \in
           {LoadSystemCodesConfig(EmptyDict, src).cfg : src \in RunCodeSources}
    /\ last = [op |-> "init"]
    /\ results = <<>>

Next ==
    \/ \E fault \in Faults : run_all_checks(fault)
    \/ \E table_name \in Tables : \E fault \in Faults :
           run_checks_for_specific_table(table_name, fault)

Spec == Init /\ [][Next]_vars

(***************************************************************************)
(* SpecFlags: rule sources of one row are loaded whose flag columns         *)
(* null_check, blank_check and date_check hold "1" or a text close to it.   *)
(***************************************************************************)
FlagTexts == {"1", "0", "true", "1 ", ""}

FlagRow(null_check, blank_check, date_check) ==
    [RuleRow("users", "email", {}, "0") EXCEPT !["null_check"] = null_check,
                                                !["blank_check"] = blank_check,
                                                !["date_check"] = date_check]

FlagSources ==
    {Source(RuleColumns, {}, <<FlagRow(a, b, c)>>) :
        a \in FlagTexts, b \in FlagTexts, c \in FlagTexts}

InitFlags == Constructed({<<>>})

NextFlags == \E src \in FlagSources : load_checks_config(src)

SpecFlags == InitFlags /\ [][NextFlags]_vars

(***************************************************************************)
(* SpecKeys: rule and code-list sources are loaded whose rows name the      *)
(* same table and field with and without surrounding whitespace and in      *)
(* different letter case.                                                   *)
(***************************************************************************)
KeyPairs ==
    {<<"users", "email">>, <<" users ", "email">>, <<"users", "email ">>,
     <<"Users", "email">>, <<"users", "EMAIL">>}

KeyRows ==
    {<<a, b>> : a \in KeyPairs, b \in KeyPairs}
    \cup {<<<<" users ", "email">>, <<"users", "email ">>, <<"Users", "email">>>>}

KeyRuleSources ==
    {Source(RuleColumns, {},
            [i \in DOMAIN rows |-> RuleRow(rows[i][1], rows[i][2], {"null_check"}, "0")]) :
        rows \in KeyRows}

KeyCodeSources ==
    {Source(CodeColumns, {},
            [i \in DOMAIN rows |-> CodeRow(rows[i][1], rows[i][2], "A")]) :
        rows \in KeyRows}

InitKeys == Constructed({<<>>})

NextKeys ==
    \/ \E src \in KeyRuleSources : load_checks_config(src)
    \/ \E src \in KeyCodeSources : load_system_codes_config(src)

SpecKeys == InitKeys /\ [][NextKeys]_vars

(***************************************************************************)
(* SpecSample: the engine is run on a column that holds about as many       *)
(* qualifying values as the email and system-code checks sample.  The       *)
(* values are distinct valid addresses, all of them declared codes, but for *)
(* at most one value that is neither; a NULL, a blank or a repeated first   *)
(* row may precede them.                                                    *)
(***************************************************************************)
\* the i-th valid value, and the invalid value that may stand in its place
SampleValue(i) == "u" \o ToString(i) \o "@b.com"
SampleBad(i) == "bad" \o ToString(i)

SampleColumn(n, bad) ==
    [i \in 1..n |-> IF i \in bad THEN SampleBad(i) ELSE SampleValue(i)]

SampleSizes == (SampleLimit - 1)..(SampleLimit + MaxBeyond)

\* no invalid value, or one: first, last sampled, or beyond the sample
SampleBadSets(n) ==
    {{}} \cup {{i} : i \in {1} \cup (SampleLimit..n)}

SamplePrefixes == {<<>>, <<NULL>>, <<"">>, <<SampleValue(1)>>}

SampleDataSources ==
    {UsersTable(prefix \o SampleColumn(n, bad)) :
        prefix \in SamplePrefixes,
        n \in SampleSizes,
        bad \in UNION {SampleBadSets(m) : m \in SampleSizes}}

SampleRunSources ==
    {Source(RuleColumns, {}, <<RuleRow("users", "email", on, "0")>>) :
        on \in {{"email_check"}, {"system_codes_check"},
                {"email_check", "system_codes_check"}}}

\* the CodeList that declares every valid value for the field email of users
SampleCodes ==
    DictPut(EmptyDict, "users",
            DictPut(EmptyDict, "email",
                    [i \in 1..(SampleLimit + MaxBeyond + 1) |-> SampleValue(i)]))

InitSample ==
    /\ sessions = NoSessions
    /\ db \in SampleDataSources
    /\ checks_config \in {LoadChecksConfig(EmptyDict, src).cfg : src \in SampleRunSources}
    /\ system_codes_config = SampleCodes
    /\ last = [op |-> "init"]
    /\ results = <<>>

NextSample ==
    \/ run_all_checks(NoFault)
    \/ run_checks_for_specific_table("users", NoFault)

SpecSample == InitSample /\ [][NextSample]_vars

(***************************************************************************)
(* SpecMatch: the engine is run on a column of codes in either case, with   *)
(* and without surrounding whitespace, against a CodeList that declares     *)
(* codes for the field, an empty list for it, codes for another field or    *)
(* another table only, or nothing.                                          *)
(***************************************************************************)
MatchValues == {NULL, "ab", "CD", " ab", "x"}

MatchDataSources == {UsersTable(vals) : vals \in SeqsUpTo(MatchValues, MaxRows)}

MatchCodeSources ==
    {Source(CodeColumns, {}, rows) :
        rows \in {<<>>,
                  <<CodeRow("users", "email", "AB,cd")>>,
                  <<CodeRow("users", "email", "")>>,
                  <<CodeRow("users", "code", "AB")>>,
                  <<CodeRow("orders", "email", "AB")>>}}

MatchRunSources ==
    {Source(RuleColumns, {}, <<RuleRow("users", "email", on, "0")>>) :
        on \in {{"system_codes_check"},
                {"null_check", "blank_check", "email_check", "system_codes_check",
                 "duplicate_check"}}}

MatchFaults ==
    {NoFault}
    \cup {[table |-> "users", field |-> "email", query |-> q, error |-> "e"] :
            q \in {"count_codes", "select_codes"}}

InitMatch ==
    /\ sessions = NoSessions
    /\ db \in MatchDataSources
    /\ checks_config \in {LoadChecksConfig(EmptyDict, src).cfg : src \in MatchRunSources}
    /\ system_codes_config \in
           {LoadSystemCodesConfig(EmptyDict, src).cfg : src \in MatchCodeSources}
    /\ last = [op |-> "init"]
    /\ results = <<>>

NextMatch ==
    \/ \E fault \in MatchFaults : run_all_checks(fault)
    \/ \E fault \in MatchFaults : run_checks_for_specific_table("users", fault)

SpecMatch == InitMatch /\ [][NextMatch]_vars

(***************************************************************************)
(* SpecDup: the engine is run with duplicate_check on a column of up to     *)
(* MaxDupRows values, or on the column 1, 1, 2, 3, 3, 3.                    *)
(***************************************************************************)
DupValues == {NULL, "", "1", "2"}

DupDataSources ==
    {UsersTable(vals) : vals \in SeqsUpTo(DupValues, MaxDupRows)}
    \cup {UsersTable(<<"1", "1", "2", "3", "3", "3">>)}

DupRunSources ==
    {Source(RuleColumns, {}, <<RuleRow("users", "email", on, "0")>>) :
        on \in {{"duplicate_check"},
                {"null_check", "blank_check", "duplicate_check"}}}

DupFaults ==
    {NoFault,
     [table |-> "users", field |-> "email", query |-> "select_duplicates", error |-> "e"]}

InitDup ==
    /\ sessions = NoSessions
    /\ db \in DupDataSources
    /\ checks_config \in {LoadChecksConfig(EmptyDict, src).cfg : src \in DupRunSources}
    /\ system_codes_config = EmptyDict
    /\ last = [op |-> "init"]
    /\ results = <<>>

NextDup ==
    \/ \E fault \in DupFaults : run_all_checks(fault)
    \/ \E fault \in DupFaults : run_checks_for_specific_table("users", fault)

SpecDup == InitDup /\ [][NextDup]_vars

(***************************************************************************)
(* SpecMulti: the engine is run on a data source of up to two tables with   *)
(* up to two columns, under a RuleSet of up to three fields declared in any *)
(* order of tables and fields, while its queries succeed or one fails.      *)
(***************************************************************************)
\* what a table of the data source may be; Absent: the table is not there
Absent == [cols |-> {}, rows |-> <<>>, absent |-> TRUE]

Table(cols, rows) == [cols |-> cols, rows |-> rows]

MultiTables ==
    {Absent,
     Table({"email"}, <<>>),
     Table({"email"}, <<[email |-> "bad"]>>),
     Table({"email", "code"},
           <<[email |-> "a@b.com", code |-> "x"], [email |-> NULL, code |-> "x"]>>)}

MultiDataSources ==
    {[t \in {u \in Tables : content[u] # Absent} |-> content[t]] :
        content \in [Tables -> MultiTables]}

MultiFlagSets ==
    {{},
     {"null_check", "blank_check", "email_check", "system_codes_check",
      "duplicate_check"}}

MultiRows ==
    {RuleRow(t, f, on, "0") : t \in Tables, f \in Fields, on \in MultiFlagSets}

AllChecks == RuleRow("users", "email", FlagColumns, "0")

\* up to two fields in any order; three fields with the tables alternating;
\* a table left without a field by a load that failed on its first row
MultiRunSources ==
    {Source(RuleColumns, {}, rows) : rows \in SeqsUpTo(MultiRows, 2)}
    \cup
    {Source(RuleColumns, {}, <<RuleRow(t, f, FlagColumns, "0"),
                               RuleRow(u, "email", {"null_check"}, "0"),
                               RuleRow(t, g, FlagColumns, "0")>>) :
        t \in Tables, u \in Tables, f \in Fields, g \in Fields}
    \cup
    {Source(RuleColumns, {"date_check"}, <<AllChecks>>)}

MultiCodeSources == {Source(CodeColumns, {}, <<CodeRow("users", "code", "X")>>)}

MultiFaults ==
    {NoFault,
     [table |-> "users", field |-> "", query |-> "table_exists", error |-> "e"]}
    \cup {[table |-> "users", field |-> "email", query |-> q, error |-> "e"] :
            q \in {"table_info", "count_rows", "select_duplicates"}}
    \cup {[table |-> "orders", field |-> "code", query |-> "count_rows", error |-> "e"]}

InitMulti ==
    /\ sessions = NoSessions
    /\ db \in MultiDataSources
    /\ checks_config \in {LoadChecksConfig(EmptyDict, src).cfg : src \in MultiRunSources}
    /\ system_codes_config \in
           {LoadSystemCodesConfig(EmptyDict, src).cfg : src \in MultiCodeSources}
    /\ last = [op |-> "init"]
    /\ results = <<>>

NextMulti ==
    \/ \E fault \in MultiFaults : run_all_checks(fault)
    \/ \E table_name \in Tables : \E fault \in MultiFaults :
           run_checks_for_specific_table(table_name, fault)

SpecMulti == InitMulti /\ [][NextMulti]_vars

(***************************************************************************)
(* SpecRerun: the engine is run again and again with no load and no change  *)
(* of the data between the runs; the runs are counted up to MaxRuns.        *)
(***************************************************************************)
RerunSources ==
    {Source(RuleColumns, {}, rows) : rows \in SeqsUpTo(MultiRows, 1)}

RerunFaults ==
    {NoFault,
     [table |-> "users", field |-> "email", query |-> "count_rows", error |-> "e"]}

InitRerun ==
    /\ sessions = NoSessions
    /\ db \in MultiDataSources
    /\ checks_config \in {LoadChecksConfig(EmptyDict, src).cfg : src \in RerunSources}
    /\ system_codes_config = EmptyDict
    /\ last = [op |-> "init", runs |-> 0]
    /\ results = <<>>

NextRerun ==
    \/ \E fault \in RerunFaults : run_all_checks(fault)
    \/ \E table_name \in Tables : \E fault \in RerunFaults :
           run_checks_for_specific_table(table_name, fault)

SpecRerun == InitRerun /\ [][NextRerun]_vars

(***************************************************************************)
(* The summaries the three callers of the engine compute from a report.     *)
(***************************************************************************)
\* for table_results in results.values(): for result in table_results
RECURSIVE Flatten(_)
Flatten(report) ==
    IF report = <<>> THEN <<>>
    ELSE report[1].v \o Flatten(Tail(report))

\* the Findings of a list whose status is one of statuses
CountStatus(findings, statuses) ==
    Cardinality({n \in DOMAIN findings : findings[n].status \in statuses})

\* the counters of a summary loop that adds the statuses in failed to failed
Summary(report, failed) ==
    [total    |-> Len(Flatten(report)),
     passed   |-> CountStatus(Flatten(report), {"PASS"}),
     failed   |-> CountStatus(Flatten(report), failed),
     warnings |-> CountStatus(Flatten(report), {"WARNING"})]

\* run_data_quality_checks of main.py: FAIL or ERROR is failed
SummaryMain(report) == Summary(report, {"FAIL", "ERROR"})

\* run_quality_checks of api_12.py: FAIL is failed, and so is ERROR
SummaryApi12(report) == Summary(report, {"FAIL", "ERROR"})

\* run_quality_checks of api_server.py: only FAIL is failed
SummaryApiServer(report) == Summary(report, {"FAIL"})

(***************************************************************************)
(* The sessions of the HTTP service of src/main.py.  A session is the dict  *)
(* create_session builds; None is Python's None and Some(x) a value that    *)
(* is there.  The files a session saves lie in its own temp_dir: a path of  *)
(* the session stands for the file saved under it.  The queries of the      *)
(* runs of a session succeed.                                               *)
(***************************************************************************)
None == <<>>
Some(x) == <<x>>

\* not value, for a value that is None or a dict
Falsy(opt) == opt = None \/ opt[1] = EmptyDict

\* str.lower() on one character
LowerChar(c) ==
    IF c \in CharsOf(UpperLetters)
    THEN CharAt(LowerLetters, CHOOSE i \in 1..Len(UpperLetters) : CharAt(UpperLetters, i) = c)
    ELSE c

RECURSIVE Lower(_)
Lower(s) == IF Len(s) = 0 THEN "" ELSE LowerChar(CharAt(s, 1)) \o Lower(SubSeq(s, 2, Len(s)))

\* text.endswith(suffix)
EndsWith(text, suffix) ==
    Len(suffix) <= Len(text)
    /\ SubSeq(text, Len(text) - Len(suffix) + 1, Len(text)) = suffix

\* d[key] = value on a dict kept as a function
SetKey(d, key, value) ==
    [k \in DOMAIN d \cup {key} |-> IF k = key THEN value ELSE d[k]]

\* the dict of a new session
NewSession ==
    [data_quality_config_path |-> None,
     system_codes_config_path |-> None,
     northwind_db_path        |-> None,
     db_connection            |-> None,
     checker                  |-> None,
     results_manager          |-> None,
     results                  |-> None,
     files_info               |-> <<>>]

\* DataQualityChecker(connection)
NewChecker(connection) ==
    [db_connection |-> connection, checks_config |-> EmptyDict,
     system_codes_config |-> EmptyDict]

\* an uploaded file
File(filename, content) == [filename |-> filename, content |-> content]

\* raise HTTPException(status_code, detail)
HTTPException(status_code, detail) == [status_code |-> status_code, detail |-> detail]

\* a response that is not an error
Success(body) == [status_code |-> 200, body |-> body]

\* validate_csv_structure: the file can be read and names every expected column
ValidateCsvStructure(src, expected_columns) ==
    src.readable /\ expected_columns \subseteq src.header

\* get_database_tables: the tables of a file, none when it is no database
GetDatabaseTables(content) == DOMAIN content

\* the request answers response and leaves session session_id as session
Answer(op, session_id, session, response) ==
    /\ sessions' = [sessions EXCEPT ![session_id] = session]
    /\ last' = [op |-> op, session_id |-> session_id]
    /\ results' = response
    /\ UNCHANGED <<checks_config, system_codes_config, db>>

\* get_session raises: the request is answered 404 and nothing changes
NotFound(op, session_id) ==
    /\ session_id \notin DOMAIN sessions
    /\ last' = [op |-> op, session_id |-> session_id]
    /\ results' = HTTPException(404, "Session not found")
    /\ UNCHANGED <<checks_config, system_codes_config, db, sessions>>

\* POST /sessions/create; uuid4 gives an id no session has
create_session(session_id) ==
    /\ session_id \notin DOMAIN sessions
    /\ sessions' = SetKey(sessions, session_id, NewSession)
    /\ last' = [op |-> "create_session", session_id |-> session_id]
    /\ results' = Success(session_id)
    /\ UNCHANGED <<checks_config, system_codes_config, db>>

\* GET /sessions/{session_id}/status
SessionStatus(session) ==
    [files_uploaded       |-> session.files_info,
     database_connected   |-> session.db_connection # None,
     config_loaded        |-> session.data_quality_config_path # None,
     system_codes_loaded  |-> session.system_codes_config_path # None,
     last_check_results   |-> session.results]

get_session_status(session_id) ==
    \/ NotFound("get_session_status", session_id)
    \/ /\ session_id \in DOMAIN sessions
       /\ Answer("get_session_status", session_id, sessions[session_id],
                 Success(SessionStatus(sessions[session_id])))

\* the session and the response upload_database leaves
UploadDatabase(session, database) ==
    IF ~\E suffix \in {".db", ".sqlite", ".sqlite3"} :
            EndsWith(Lower(database.filename), suffix)
    THEN [session |-> session,
          response |-> HTTPException(400, "Database file must be .db, .sqlite, or .sqlite3")]
    ELSE IF GetDatabaseTables(database.content) = {}
    THEN [session |-> session,
          response |-> HTTPException(500, "Error processing database")]
    ELSE [session |->
              [session EXCEPT
                  !.northwind_db_path = Some(database),
                  !.db_connection = Some(database.content),
                  !.checker = Some(NewChecker(database.content)),
                  !.results_manager = Some("Results.db"),
                  !.files_info = SetKey(@, "database", database.filename)],
          response |-> Success(GetDatabaseTables(database.content))]

\* POST /sessions/{session_id}/upload/database
upload_database(session_id, database) ==
    \/ NotFound("upload_database", session_id)
    \/ /\ session_id \in DOMAIN sessions
       /\ LET r == UploadDatabase(sessions[session_id], database)
          IN Answer("upload_database", session_id, r.session, r.response)

\* the part of upload_config that handles the file of system codes, on a
\* session whose rule file was loaded and recorded
UploadSystemCodes(session, codes_file) ==
    IF ~EndsWith(Lower(codes_file.filename), ".csv")
    THEN [session |-> session,
          response |-> HTTPException(400, "System codes config must be a CSV file")]
    ELSE IF ~ValidateCsvStructure(codes_file.content, CodeColumns)
    THEN [session |-> session,
          response |-> HTTPException(400, "Invalid system codes config CSV structure")]
    ELSE LET checker == session.checker[1]
             r == LoadSystemCodesConfig(checker.system_codes_config, codes_file.content)
             loaded == [session EXCEPT
                           !.checker = Some([checker EXCEPT !.system_codes_config = r.cfg])]
         IN IF r.ok
            THEN [session |->
                      [loaded EXCEPT
                          !.system_codes_config_path = Some(codes_file),
                          !.files_info = SetKey(@, "system_codes_config",
                                                codes_file.filename)],
                  response |-> Success([tables_configured |-> Len(r.cfg),
                                        system_codes_loaded |-> TRUE])]
            ELSE [session |-> loaded,
                  response |-> Success([tables_configured |-> Len(r.cfg),
                                        system_codes_loaded |-> FALSE])]

\* the columns upload_config expects of a rule file
ExpectedColumns == {"table_name", "field_name", "description", "null_check", "blank_check"}

\* the session and the response upload_config leaves; codes_file is None
\* when the request carries no file of system codes
UploadConfig(session, data_quality_config, codes_file) ==
    IF session.checker = None
    THEN [session |-> session,
          response |-> HTTPException(400, "Database must be uploaded first")]
    ELSE IF ~EndsWith(Lower(data_quality_config.filename), ".csv")
    THEN [session |-> session,
          response |-> HTTPException(400, "Data quality config must be a CSV file")]
    ELSE IF ~ValidateCsvStructure(data_quality_config.content, ExpectedColumns)
    THEN [session |-> session,
          response |-> HTTPException(400, "Invalid data quality config CSV structure")]
    ELSE LET checker == session.checker[1]
             r == LoadChecksConfig(checker.checks_config, data_quality_config.content)
             loaded == [session EXCEPT
                           !.checker = Some([checker EXCEPT !.checks_config = r.cfg])]
         IN IF ~r.ok
            THEN [session |-> loaded,
                  response |->
                      HTTPException(400, "Failed to load data quality configuration")]
            ELSE LET recorded ==
                         [loaded EXCEPT
                             !.data_quality_config_path = Some(data_quality_config),
                             !.files_info = SetKey(@, "data_quality_config",
                                                   data_quality_config.filename)]
                 IN IF codes_file = None
                    THEN [session |-> recorded,
                          response |-> Success([tables_configured |-> Len(r.cfg)])]
                    ELSE UploadSystemCodes(recorded, codes_file[1])

\* POST /sessions/{session_id}/upload/config
upload_config(session_id, data_quality_config, codes_file) ==
    \/ NotFound("upload_config", session_id)
    \/ /\ session_id \in DOMAIN sessions
       /\ LET r == UploadConfig(sessions[session_id], data_quality_config, codes_file)
          IN Answer("upload_config", session_id, r.session, r.response)

\* the session and the response run_data_quality_checks leaves;
\* specific_table is "" when the request names no table
RunDataQualityChecks(session, specific_table) ==
    IF session.checker = None
    THEN [session |-> session,
          response |->
              HTTPException(400, "Database and configuration must be uploaded first")]
    ELSE IF session.checker[1].checks_config = EmptyDict
    THEN [session |-> session,
          response |-> HTTPException(400, "Data quality configuration not loaded")]
    ELSE LET checker == session.checker[1]
             report ==
                 IF specific_table # ""
                 THEN RunChecksForSpecificTable(checker.checks_config,
                                                checker.system_codes_config,
                                                checker.db_connection,
                                                specific_table, NoFault)
                 ELSE RunAllChecks(checker.checks_config, checker.system_codes_config,
                                   checker.db_connection, NoFault)
         IN [session |-> [session EXCEPT !.results = Some(report)],
             response |-> Success([results |-> report, summary |-> SummaryMain(report)])]

\* POST /sessions/{session_id}/run-checks
run_data_quality_checks(session_id, specific_table) ==
    \/ NotFound("run_data_quality_checks", session_id)
    \/ /\ session_id \in DOMAIN sessions
       /\ LET r == RunDataQualityChecks(sessions[session_id], specific_table)
          IN Answer("run_data_quality_checks", session_id, r.session, r.response)

\* the response of get_results
GetResults(session) ==
    IF Falsy(session.results)
    THEN HTTPException(404, "No results found. Run checks first.")
    ELSE Success([results |-> session.results[1]])

\* GET /sessions/{session_id}/results
get_results(session_id) ==
    \/ NotFound("get_results", session_id)
    \/ /\ session_id \in DOMAIN sessions
       /\ Answer("get_results", session_id, sessions[session_id],
                 GetResults(sessions[session_id]))

\* the tables of a report with the Findings check_type selects, the tables
\* left without a Finding dropped
FilteredResults(report, check_type) ==
    LET keep(x) == CASE Lower(check_type) = "failed" -> x.status \in {"FAIL", "ERROR"}
                     [] Lower(check_type) = "passed" -> x.status \in {"PASS", "INFO"}
                     [] OTHER -> TRUE
        filtered == [i \in DOMAIN report |->
                        [k |-> report[i].k, v |-> SelectSeq(report[i].v, keep)]]
    IN SelectSeq(filtered, LAMBDA e : e.v # <<>>)

\* the response of export_results: the filtered report, or its rows as CSV
ExportResults(session, format, check_type) ==
    IF Falsy(session.results)
    THEN HTTPException(404, "No results found. Run checks first.")
    ELSE IF Lower(format) \notin {"csv", "json"}
    THEN HTTPException(400, "Format must be 'csv' or 'json'")
    ELSE IF Lower(check_type) \notin {"all", "failed", "passed"}
    THEN HTTPException(400, "Check type must be 'all', 'failed', or 'passed'")
    ELSE IF Lower(format) = "csv"
    THEN Success([rows |-> Flatten(FilteredResults(session.results[1], check_type))])
    ELSE Success([results |-> FilteredResults(session.results[1], check_type)])

\* GET /sessions/{session_id}/export/{format}
export_results(session_id, format, check_type) ==
    \/ NotFound("export_results", session_id)
    \/ /\ session_id \in DOMAIN sessions
       /\ last' = [op |-> "export_results", session_id |-> session_id,
                   format |-> format, check_type |-> check_type]
       /\ results' = ExportResults(sessions[session_id], format, check_type)
       /\ UNCHANGED <<checks_config, system_codes_config, db, sessions>>

\* a removal that drops every session
RemovedEvery(all, session_id) == NoSessions

\* the sessions without session_id
Removed(all, session_id) ==
    IF DOMAIN all \ {session_id} = {} THEN NoSessions
    ELSE [s \in DOMAIN all \ {session_id} |-> all[s]]

\* SessionManager.cleanup_session: the sessions it leaves and whether it
\* raised; close_raises tells whether closing a connection raises
CleanupSession(all, session_id, close_raises) ==
    IF session_id \notin DOMAIN all
    THEN [sessions |-> all, raised |-> FALSE]
    ELSE IF close_raises /\ (all[session_id].db_connection # None
                             \/ all[session_id].results_manager # None)
    THEN [sessions |-> all, raised |-> TRUE]
    ELSE [sessions |-> Removed(all, session_id), raised |-> FALSE]

\* DELETE /sessions/{session_id}
delete_session(session_id, close_raises) ==
    LET r == CleanupSession(sessions, session_id, close_raises) IN
    /\ sessions' = r.sessions
    /\ last' = [op |-> "delete_session", session_id |-> session_id,
                close_raises |-> close_raises]
    /\ results' = IF r.raised THEN HTTPException(500, "Error deleting session")
                  ELSE Success("deleted")
    /\ UNCHANGED <<checks_config, system_codes_config, db>>

\* GET /sessions
list_sessions ==
    /\ last' = [op |-> "list_sessions", session_id |-> ""]
    /\ results' = Success(DOMAIN sessions)
    /\ UNCHANGED <<checks_config, system_codes_config, db, sessions>>

(***************************************************************************)
(* SpecSession: the requests of src/main.py on one session, with files      *)
(* that are accepted and files that are rejected.                           *)
(***************************************************************************)
UsersDb == UsersTable(<<NULL, "bad">>)
OrdersDb == "orders" :> Table({"code"}, <<[code |-> "x"]>>)

SessionDatabases ==
    {File("n.db", UsersDb), File("N.SQLITE", OrdersDb), File("e.db", <<>>),
     File("n.txt", UsersDb)}

SessionRuleRows == <<RuleRow("users", "email", {"null_check", "email_check"}, "0")>>

SessionRuleFiles ==
    {File("r.csv", Source(RuleColumns, {}, SessionRuleRows)),
     File("late.csv", Source(RuleColumns, {"date_check"}, SessionRuleRows)),
     File("short.csv", Source(RuleColumns, {"null_check"}, SessionRuleRows)),
     File("r.txt", Source(RuleColumns, {}, SessionRuleRows))}

SessionCodeRows == <<CodeRow("users", "email", "AB")>>

SessionCodeFiles ==
    {None,
     Some(File("c.csv", Source(CodeColumns, {}, SessionCodeRows))),
     Some(File("short.csv", Source(CodeColumns, {"valid_codes"}, SessionCodeRows))),
     Some(File("c.txt", Source(CodeColumns, {}, SessionCodeRows)))}

InitSession ==
    /\ sessions = NoSessions
    /\ checks_config = EmptyDict
    /\ system_codes_config = EmptyDict
    /\ db = <<>>
    /\ last = [op |-> "init"]
    /\ results = <<>>

NextSession ==
    \E session_id \in {"s1"} :
        \/ create_session(session_id)
        \/ get_session_status(session_id)
        \/ \E database \in SessionDatabases : upload_database(session_id, database)
        \/ \E data_quality_config \in SessionRuleFiles :
           \E codes_file \in SessionCodeFiles :
               upload_config(session_id, data_quality_config, codes_file)
        \/ \E specific_table \in {"", "users"} :
               run_data_quality_checks(session_id, specific_table)
        \/ get_results(session_id)
        \/ \E format \in {"json", "CSV", "xml"} : \E check_type \in {"all", "failed", "x"} :
               export_results(session_id, format, check_type)
        \/ \E close_raises \in BOOLEAN : delete_session(session_id, close_raises)
        \/ list_sessions

SpecSession == InitSession /\ [][NextSession]_vars

(***************************************************************************)
(* SpecSessions: the requests of src/main.py interleaved on two sessions.   *)
(***************************************************************************)
SessionIds == {"s1", "s2"}

NextSessions ==
    \E session_id \in SessionIds :
        \/ create_session(session_id)
        \/ \E database \in {File("n.db", UsersDb), File("N.SQLITE", OrdersDb)} :
               upload_database(session_id, database)
        \/ upload_config(session_id,
                         File("r.csv", Source(RuleColumns, {}, SessionRuleRows)), None)
        \/ run_data_quality_checks(session_id, "")
        \/ get_results(session_id)
        \/ \E close_raises \in BOOLEAN : delete_session(session_id, close_raises)

SpecSessions == InitSession /\ [][NextSessions]_vars

(***************************************************************************)
(* The sessions of the HTTP service of src/api_server.py.  Its sessions     *)
(* are the dicts of the same keys; it keeps the uploaded files under fixed  *)
(* names in the session's temp_dir and builds a new engine from them for    *)
(* every run.  The engine it runs is the engine modelled above.             *)
(***************************************************************************)
\* the session and the response upload_northwind_database leaves; the file
\* is written to northwind.db before its tables are looked at
UploadNorthwindDatabase(session, file) ==
    IF file.filename = ""
    THEN [session |-> session,
          response |-> HTTPException(422, "No database file provided")]
    ELSE IF ~EndsWith(Lower(file.filename), ".db")
    THEN [session |-> session,
          response |-> HTTPException(422, "File must be a SQLite database with .db extension")]
    ELSE LET db_path == Some(File("northwind.db", file.content))
             written == [session EXCEPT
                            !.northwind_db_path = IF @ = None THEN None ELSE db_path]
         IN IF GetDatabaseTables(file.content) = {}
            THEN [session |-> written,
                  response |-> HTTPException(422, "Database file contains no tables")]
            ELSE [session |->
                      [session EXCEPT
                          !.northwind_db_path = db_path,
                          !.files_info = SetKey(@, "northwind_db", file.filename)],
                  response |-> Success(GetDatabaseTables(file.content))]

\* POST /files/upload/northwind-db/{session_id}
upload_northwind_database(session_id, file) ==
    \/ NotFound("upload_northwind_database", session_id)
    \/ /\ session_id \in DOMAIN sessions
       /\ LET r == UploadNorthwindDatabase(sessions[session_id], file)
          IN Answer("upload_northwind_database", session_id, r.session, r.response)

\* the session and the response an upload of a configuration file leaves:
\* the file is kept under path_key when it names the required columns
UploadConfigFile(session, file, required_columns, path_key, saved_as) ==
    IF file.filename = ""
    THEN [session |-> session,
          response |-> HTTPException(422, "No configuration file provided")]
    ELSE IF ~EndsWith(Lower(file.filename), ".csv")
    THEN [session |-> session,
          response |-> HTTPException(422, "File must be a CSV file with .csv extension")]
    ELSE IF ~ValidateCsvStructure(file.content, required_columns)
    THEN [session |-> session,
          response |-> HTTPException(422, "CSV missing required columns")]
    ELSE [session |->
              [session EXCEPT
                  ![path_key] = Some(File(saved_as \o ".csv", file.content)),
                  !.files_info = SetKey(@, saved_as, file.filename)],
          response |-> Success(Len(file.content.rows))]

\* POST /files/upload/data-quality-config/{session_id}
upload_data_quality_config(session_id, file) ==
    \/ NotFound("upload_data_quality_config", session_id)
    \/ /\ session_id \in DOMAIN sessions
       /\ LET r == UploadConfigFile(sessions[session_id], file, RuleColumns,
                                    "data_quality_config_path", "data_quality_config")
          IN Answer("upload_data_quality_config", session_id, r.session, r.response)

\* POST /files/upload/system-codes-config/{session_id}
upload_system_codes_config(session_id, file) ==
    \/ NotFound("upload_system_codes_config", session_id)
    \/ /\ session_id \in DOMAIN sessions
       /\ LET r == UploadConfigFile(sessions[session_id], file, CodeColumns,
                                    "system_codes_config_path", "system_codes_config")
          IN Answer("upload_system_codes_config", session_id, r.session, r.response)

\* the Report of the run of run_quality_checks, None when the request is
\* rejected before the run or a configuration does not load
ReportOfRun(session) ==
    IF \/ session.northwind_db_path = None
       \/ session.data_quality_config_path = None
       \/ session.system_codes_config_path = None
    THEN None
    ELSE LET r == LoadChecksConfig(EmptyDict, session.data_quality_config_path[1].content)
             c == LoadSystemCodesConfig(EmptyDict,
                                        session.system_codes_config_path[1].content)
         IN IF ~r.ok \/ ~c.ok THEN None
            ELSE Some(RunAllChecks(r.cfg, c.cfg, session.northwind_db_path[1].content,
                                   NoFault))

\* the session and the response run_quality_checks leaves
RunQualityChecks(session) ==
    IF session.northwind_db_path = None
    THEN [session |-> session,
          response |-> HTTPException(400, "Northwind database not uploaded")]
    ELSE IF session.data_quality_config_path = None
    THEN [session |-> session,
          response |-> HTTPException(400, "Data quality configuration not uploaded")]
    ELSE IF session.system_codes_config_path = None
    THEN [session |-> session,
          response |-> HTTPException(400, "System codes configuration not uploaded")]
    ELSE IF ReportOfRun(session) = None
    THEN [session |-> session,
          response |-> HTTPException(500, "Database processing error")]
    ELSE LET db_connection == session.northwind_db_path[1].content
             quality_checker ==
                 [db_connection |-> db_connection,
                  checks_config |->
                      LoadChecksConfig(EmptyDict,
                                       session.data_quality_config_path[1].content).cfg,
                  system_codes_config |->
                      LoadSystemCodesConfig(EmptyDict,
                                            session.system_codes_config_path[1].content).cfg]
             report == ReportOfRun(session)[1]
         IN IF report = EmptyDict
            THEN [session |-> session,
                  response |-> Success(SummaryApiServer(EmptyDict))]
            ELSE [session |->
                      [session EXCEPT
                          !.results = Some(report),
                          !.db_connection = Some(db_connection),
                          !.checker = Some(quality_checker),
                          !.results_manager = Some("Results.db")],
                  response |-> Success(SummaryApiServer(report))]

\* POST /checks/run
run_quality_checks(session_id) ==
    \/ NotFound("run_quality_checks", session_id)
    \/ /\ session_id \in DOMAIN sessions
       /\ LET r == RunQualityChecks(sessions[session_id]) IN
          /\ sessions' = [sessions EXCEPT ![session_id] = r.session]
          /\ last' = [op |-> "run_quality_checks", session_id |-> session_id,
                      report |-> ReportOfRun(sessions[session_id])]
          /\ results' = r.response
          /\ UNCHANGED <<checks_config, system_codes_config, db>>

\* the response of get_check_results
GetCheckResults(session) ==
    IF Falsy(session.results)
    THEN HTTPException(404, "No results available. Run checks first.")
    ELSE Success([results |-> session.results[1],
                  summary |-> SummaryApiServer(session.results[1])])

\* GET /checks/results/{session_id}
get_check_results(session_id) ==
    \/ NotFound("get_check_results", session_id)
    \/ /\ session_id \in DOMAIN sessions
       /\ Answer("get_check_results", session_id, sessions[session_id],
                 GetCheckResults(sessions[session_id]))

\* the response of download_results_csv: the rows of the file
DownloadResultsCsv(session) ==
    IF Falsy(session.results)
    THEN HTTPException(404, "No results available. Run checks first.")
    ELSE Success([rows |-> Flatten(session.results[1])])

\* GET /files/download/results-csv/{session_id}
download_results_csv(session_id) ==
    \/ NotFound("download_results_csv", session_id)
    \/ /\ session_id \in DOMAIN sessions
       /\ Answer("download_results_csv", session_id, sessions[session_id],
                 DownloadResultsCsv(sessions[session_id]))

(***************************************************************************)
(* SpecApiServer: the requests of src/api_server.py on one session.         *)
(***************************************************************************)
ServerDatabases ==
    {File("n.db", UsersDb), File("o.DB", OrdersDb), File("e.db", <<>>),
     File("n.txt", UsersDb), File("", UsersDb)}

ServerRuleFiles ==
    {File("r.csv", Source(RuleColumns, {}, SessionRuleRows)),
     File("none.csv", Source(RuleColumns, {}, <<>>)),
     File("short.csv", Source(RuleColumns, {"date_check"}, SessionRuleRows)),
     File("r.txt", Source(RuleColumns, {}, SessionRuleRows))}

ServerCodeFiles ==
    {File("c.csv", Source(CodeColumns, {}, SessionCodeRows)),
     File("short.csv", Source(CodeColumns, {"valid_codes"}, SessionCodeRows)),
     File("", Source(CodeColumns, {}, SessionCodeRows))}

NextApiServer ==
    \E session_id \in {"s1"} :
        \/ create_session(session_id)
        \/ \E file \in ServerDatabases : upload_northwind_database(session_id, file)
        \/ \E file \in ServerRuleFiles : upload_data_quality_config(session_id, file)
        \/ \E file \in ServerCodeFiles : upload_system_codes_config(session_id, file)
        \/ run_quality_checks(session_id)
        \/ get_check_results(session_id)
        \/ download_results_csv(session_id)

SpecApiServer == InitSession /\ [][NextApiServer]_vars

(***************************************************************************)
(* What the claims speak of.                                                *)
(***************************************************************************)
\* the (table, field) entries of a configuration
Entries(cfg) ==
    UNION {{<<cfg[i].k, cfg[i].v[j].k>> : j \in DOMAIN cfg[i].v} : i \in DOMAIN cfg}

\* the (table, field) entries a source declares
Declared(src) ==
    {<<Strip(src.rows[i]["table_name"]), Strip(src.rows[i]["field_name"])>> :
        i \in DOMAIN src.rows}

LoadedRules == last.op = "load_checks_config"
LoadedCodes == last.op = "load_system_codes_config"
IsRun == last.op \in {"run_all_checks", "run_checks_for_specific_table"}

\* the last run dispatched the fields of table t
Dispatched(t) ==
    /\ IsRun
    /\ last.op = "run_all_checks" \/ last.table = t
    /\ DictHas(checks_config, t)
    /\ t \in DOMAIN db
    /\ ~Raises(last.fault, t, "", "table_exists")

\* the configured fields the last run dispatched
DispatchedFields ==
    {tf \in Entries(checks_config) : Dispatched(tf[1])}

ChecksOf(t, f) == DictGet(DictGet(checks_config, t), f)

\* one of the queries qs of field f of table t failed in the last run
QueryFailed(t, f, qs) ==
    last.fault.table = t /\ last.fault.field = f /\ last.fault.query \in qs

\* the Findings the last run reported for field f of table t
FieldFindings(t, f) ==
    IF DictHas(results, t)
    THEN SelectSeq(DictGet(results, t), LAMBDA x : x.table = t /\ x.field = f)
    ELSE <<>>

\* those of one check type
FindingsOfType(t, f, check_type) ==
    SelectSeq(FieldFindings(t, f), LAMBDA x : x.check_type = check_type)

ColumnOf(t, f) == Column(db, t, f)
TrueCount(t, f, v) == Cardinality({i \in DOMAIN ColumnOf(t, f) : ColumnOf(t, f)[i] = v})

\* text holds part somewhere
Contains(text, part) ==
    \E i \in 1..(Len(text) - Len(part) + 1) : SubSeq(text, i, i + Len(part) - 1) = part

StartsWith(text, part) ==
    Len(part) <= Len(text) /\ SubSeq(text, 1, Len(part)) = part

(***************************************************************************)
(* C1.  A rule source that lacks a required column makes load_checks_config *)
(* fail and leaves the RuleSet exactly as it was before the call.           *)
(***************************************************************************)
Claim_C1_FailedLoadKeepsRules ==
    (LoadedRules /\ last.src.readable /\ ~(RuleColumns \subseteq last.src.header))
    => (results = FALSE /\ checks_config = last.before)

\* no table without a field, which only a failed load leaves behind
NoBareTable(cfg) == \A i \in DOMAIN cfg : cfg[i].v # <<>>

(***************************************************************************)
(* C2.  After a successful load_checks_config the RuleSet holds exactly the *)
(* tables and fields the loaded source declares, nothing of an earlier     *)
(* load (stated for a RuleSet that no failed load has touched before).      *)
(***************************************************************************)
Claim_C2_LoadReplacesRules ==
    (LoadedRules /\ results = TRUE /\ NoBareTable(last.before))
    => /\ Entries(checks_config) = Declared(last.src)
       /\ DictKeys(checks_config) = {tf[1] : tf \in Declared(last.src)}

(***************************************************************************)
(* C3.  load_system_codes_config replaces atomically: a failed load leaves  *)
(* the CodeList as it was, a successful one leaves exactly the entries of   *)
(* the new source.                                                          *)
(***************************************************************************)
Claim_C3_CodesAtomicReplace ==
    LoadedCodes
    => /\ results = FALSE => system_codes_config = last.before
       /\ results = TRUE => Entries(system_codes_config) = Declared(last.src)

(***************************************************************************)
(* C4.  A dispatched field whose column does not exist in its (existing)    *)
(* table gets exactly one Finding, column_existence with status FAIL,       *)
(* whatever its flags.                                                      *)
(***************************************************************************)
Thm_C4_MissingColumn ==
    \A tf \in DispatchedFields :
        tf[2] \notin db[tf[1]].cols
        => LET fs == FieldFindings(tf[1], tf[2]) IN
           /\ Len(fs) = 1
           /\ fs[1].check_type = "column_existence"
           /\ fs[1].status = "FAIL"

Wit_C4_MissingColumn ==
    \E tf \in DispatchedFields :
        /\ tf[2] \notin db[tf[1]].cols
        /\ CountRows(db, tf[1]) = 0
        /\ \A c \in FlagColumns : ChecksOf(tf[1], tf[2])[c]
        /\ Len(FieldFindings(tf[1], tf[2])) = 1

(***************************************************************************)
(* C5.  A dispatched field whose column exists in a table with zero rows    *)
(* gets exactly one Finding, data_existence with status WARNING, whatever   *)
(* its flags (the two queries that establish this having succeeded).        *)
(***************************************************************************)
Thm_C5_EmptyTable ==
    \A tf \in DispatchedFields :
        (/\ tf[2] \in db[tf[1]].cols
         /\ CountRows(db, tf[1]) = 0
         /\ ~QueryFailed(tf[1], tf[2], {"table_info", "count_rows"}))
        => LET fs == FieldFindings(tf[1], tf[2]) IN
           /\ Len(fs) = 1
           /\ fs[1].check_type = "data_existence"
           /\ fs[1].status = "WARNING"

Wit_C5_EmptyTable ==
    \E tf \in DispatchedFields :
        /\ tf[2] \in db[tf[1]].cols
        /\ CountRows(db, tf[1]) = 0
        /\ \A c \in FlagColumns : ChecksOf(tf[1], tf[2])[c]
        /\ last.fault = NoFault
        /\ Len(FieldFindings(tf[1], tf[2])) = 1

\* the check kinds the claim counts as evaluated
ActiveKinds ==
    {"null_check", "blank_check", "email_check", "numeric_check", "duplicate_check",
     "system_codes_check", "language_check", "phone_number_check", "date_check",
     "special_characters_check"}

(***************************************************************************)
(* C6.  With the column present, the table non-empty and every query        *)
(* succeeding, each enabled flag among null, blank, email, numeric,         *)
(* duplicate, system-code, language, phone, date and special-characters     *)
(* yields exactly one Finding of its kind (email and system-code only when  *)
(* some value is neither NULL nor blank).                                   *)
(***************************************************************************)
Claim_C6_OneFindingPerEnabledFlag ==
    \A tf \in DispatchedFields :
        (/\ tf[2] \in db[tf[1]].cols
         /\ CountRows(db, tf[1]) > 0
         /\ last.fault = NoFault)
        => \A c \in ActiveKinds :
               (/\ ChecksOf(tf[1], tf[2])[c]
                /\ c \in {"email_check", "system_codes_check"}
                       => NonEmpty(db, tf[1], tf[2]) # <<>>)
               => Len(FindingsOfType(tf[1], tf[2], c)) = 1

(***************************************************************************)
(* C7.  A disabled check emits nothing: no Finding of a field carries the   *)
(* check type of a flag that is false for that field.                       *)
(***************************************************************************)
Thm_C7_DisabledEmitsNothing ==
    IsRun =>
        \A tf \in Entries(checks_config) : \A c \in FlagColumns :
            ~ChecksOf(tf[1], tf[2])[c] => FindingsOfType(tf[1], tf[2], c) = <<>>

Wit_C7_DisabledEmitsNothing ==
    \E tf \in DispatchedFields :
        /\ tf[2] \in db[tf[1]].cols
        /\ CountRows(db, tf[1]) > 0
        /\ last.fault = NoFault
        /\ ChecksOf(tf[1], tf[2])["null_check"]
        /\ ~ChecksOf(tf[1], tf[2])["blank_check"]
        /\ ~ChecksOf(tf[1], tf[2])["email_check"]
        /\ Len(FieldFindings(tf[1], tf[2])) = 1

(***************************************************************************)
(* C8.  With null_check enabled (column present, table non-empty, the       *)
(* queries up to the NULL count succeeding) the field gets one null_check   *)
(* Finding: PASS when no row is NULL; FAIL when some are, and then the      *)
(* count its message reports is the number of NULL rows.                    *)
(***************************************************************************)
Thm_C8_NullCheck ==
    \A tf \in DispatchedFields :
        (/\ tf[2] \in db[tf[1]].cols
         /\ CountRows(db, tf[1]) > 0
         /\ ChecksOf(tf[1], tf[2])["null_check"]
         /\ ~QueryFailed(tf[1], tf[2], {"table_info", "count_rows", "count_null"}))
        => LET fs == FindingsOfType(tf[1], tf[2], "null_check")
               nulls == TrueCount(tf[1], tf[2], NULL)
           IN /\ Len(fs) = 1
              /\ nulls = 0 => fs[1].status = "PASS"
              /\ nulls >= 1 =>
                    /\ fs[1].status = "FAIL"
                    /\ StartsWith(fs[1].message,
                                  "Found " \o ToString(nulls) \o " NULL values ")

Wit_C8_NullCheck ==
    \E tf \in DispatchedFields :
        /\ tf[2] \in db[tf[1]].cols
        /\ ChecksOf(tf[1], tf[2])["null_check"]
        /\ TrueCount(tf[1], tf[2], NULL) = 2
        /\ TrueCount(tf[1], tf[2], "") = 0
        /\ Len(FindingsOfType(tf[1], tf[2], "null_check")) = 1
        /\ FindingsOfType(tf[1], tf[2], "null_check")[1].status = "FAIL"

\* the blank check of field f of table t ran to its Finding
BlankQueriesOk(t, f) ==
    /\ f \in db[t].cols
    /\ CountRows(db, t) > 0
    /\ ChecksOf(t, f)["blank_check"]
    /\ ~QueryFailed(t, f, {"table_info", "count_rows", "count_blank"})
    /\ ChecksOf(t, f)["null_check"] => ~QueryFailed(t, f, {"count_null"})

(***************************************************************************)
(* C9 as claimed.  With blank_check enabled (column present, table          *)
(* non-empty) the field gets one blank_check Finding, FAIL when some row    *)
(* equals the empty string and PASS otherwise, and its message states that  *)
(* count out of the table's total row count.                                *)
(***************************************************************************)
Claim_C9_BlankMessageAlwaysCounts ==
    \A tf \in DispatchedFields :
        BlankQueriesOk(tf[1], tf[2])
        => LET fs == FindingsOfType(tf[1], tf[2], "blank_check")
               blanks == TrueCount(tf[1], tf[2], "")
           IN /\ Len(fs) = 1
              /\ fs[1].status = (IF blanks > 0 THEN "FAIL" ELSE "PASS")
              /\ Contains(fs[1].message, ToString(blanks))
              /\ Contains(fs[1].message, "out of " \o ToString(CountRows(db, tf[1])))

(***************************************************************************)
(* C9 as the code has it.  With blank_check enabled (column present, table  *)
(* non-empty, the queries up to the blank count succeeding) the field gets  *)
(* one blank_check Finding, FAIL when some row equals the empty string and  *)
(* PASS otherwise; the FAIL message states that count out of the table's    *)
(* total row count, the PASS message is "No blank values found".            *)
(***************************************************************************)
Thm_C9_BlankCheck ==
    \A tf \in DispatchedFields :
        BlankQueriesOk(tf[1], tf[2])
        => LET fs == FindingsOfType(tf[1], tf[2], "blank_check")
               blanks == TrueCount(tf[1], tf[2], "")
           IN /\ Len(fs) = 1
              /\ fs[1].status = (IF blanks > 0 THEN "FAIL" ELSE "PASS")
              /\ blanks > 0 =>
                    Contains(fs[1].message,
                             ToString(blanks) \o " blank values out of "
                             \o ToString(CountRows(db, tf[1])) \o " total rows")
              /\ blanks = 0 => fs[1].message = "No blank values found"

Wit_C9_BlankCheck ==
    \E tf \in DispatchedFields :
        /\ BlankQueriesOk(tf[1], tf[2])
        /\ TrueCount(tf[1], tf[2], "") = 0
        /\ TrueCount(tf[1], tf[2], NULL) = 1
        /\ Len(FindingsOfType(tf[1], tf[2], "blank_check")) = 1
        /\ FindingsOfType(tf[1], tf[2], "blank_check")[1].status = "PASS"

\* the run of the end-to-end case: one field, two flags, three rows
EndToEndCase ==
    /\ Dispatched("users")
    /\ Entries(checks_config) = {<<"users", "email">>}
    /\ {c \in FlagColumns : ChecksOf("users", "email")[c]} = {"null_check", "blank_check"}
    /\ "email" \in db["users"].cols
    /\ ColumnOf("users", "email") = <<NULL, "", "a@b.com">>
    /\ ~QueryFailed("users", "email",
                    {"table_info", "count_rows", "count_null", "count_blank"})

(***************************************************************************)
(* C10.  NULL and blank are counted independently: with null_check and      *)
(* blank_check the only flags enabled on the one configured field, whose    *)
(* rows are NULL, '' and 'a@b.com', the report of the table holds exactly   *)
(* two Findings, in this order: null_check FAIL reporting 1 out of 3, then  *)
(* blank_check FAIL reporting 1 out of 3.                                   *)
(***************************************************************************)
Thm_C10_EndToEnd ==
    EndToEndCase
    => /\ DictKeys(results) = {"users"}
       /\ LET fs == DictGet(results, "users") IN
          /\ Len(fs) = 2
          /\ fs[1] = Finding("users", "email", "null_check", "FAIL",
                             "Found 1 NULL values out of 3 total rows")
          /\ fs[2] = Finding("users", "email", "blank_check", "FAIL",
                             "Found 1 blank values out of 3 total rows")

Wit_C10_EndToEnd ==
    /\ EndToEndCase
    /\ last.op = "run_all_checks"
    /\ Len(DictGet(results, "users")) = 2

\* the checks that sample the non-NULL, non-blank values of a field
SampledKinds == {"email_check", "system_codes_check"}

\* field f of table t has its column, and the table has rows
HasData(t, f) == f \in db[t].cols /\ CountRows(db, t) > 0

\* every value of field f of table t is NULL or blank
NoValues(t, f) == \A i \in DOMAIN ColumnOf(t, f) : ColumnOf(t, f)[i] \in {NULL, ""}

(***************************************************************************)
(* C11.  With email_check or system_codes_check enabled on a field of a     *)
(* non-empty table none of whose values is neither NULL nor blank, the run  *)
(* reports no Finding of that check type, neither PASS nor FAIL.            *)
(***************************************************************************)
Thm_C11_NoValuesNoFinding ==
    \A tf \in DispatchedFields : \A c \in SampledKinds :
        (/\ HasData(tf[1], tf[2])
         /\ ChecksOf(tf[1], tf[2])[c]
         /\ NoValues(tf[1], tf[2]))
        => FindingsOfType(tf[1], tf[2], c) = <<>>

Wit_C11_NoValuesNoFinding ==
    \E tf \in DispatchedFields :
        /\ HasData(tf[1], tf[2])
        /\ \A c \in SampledKinds : ChecksOf(tf[1], tf[2])[c]
        /\ ChecksOf(tf[1], tf[2])["duplicate_check"]
        /\ ColumnOf(tf[1], tf[2]) = <<NULL, "">>
        /\ last.fault = NoFault
        /\ Len(FindingsOfType(tf[1], tf[2], "duplicate_check")) = 1
        /\ \A c \in SampledKinds : FindingsOfType(tf[1], tf[2], c) = <<>>

\* the values of field f of table t that are neither NULL nor blank, in row
\* order, and the distinct ones among them in order of first appearance
Qualifying(t, f) == SelectSeq(ColumnOf(t, f), LAMBDA v : v \notin {NULL, ""})
QualifyingDistinct(t, f) == Distinct(Qualifying(t, f))

\* the values SpecSample puts in a column that are no address and no code
IsBad(v) == StartsWith(v, "bad")

\* one of the first n values of seq is bad
BadAmongFirst(seq, n) == \E i \in DOMAIN seq : i <= n /\ IsBad(seq[i])

\* the status of the one Finding of a check type for field f of table t
StatusOf(t, f, check_type) == FindingsOfType(t, f, check_type)[1].status

(***************************************************************************)
(* C12.  email_check is decided by the first 100 non-NULL, non-blank rows   *)
(* and system_codes_check by the first 100 distinct non-NULL, non-blank     *)
(* values: the Finding is FAIL iff one of those is invalid, so each of      *)
(* exactly 100 values decides and an invalid value beyond the 100th leaves  *)
(* the Finding PASS.                                                        *)
(***************************************************************************)
Thm_C12_SampleBound ==
    \A tf \in DispatchedFields :
        LET t == tf[1]
            f == tf[2]
        IN /\ ChecksOf(t, f)["email_check"] =>
                /\ Len(FindingsOfType(t, f, "email_check")) = 1
                /\ StatusOf(t, f, "email_check") =
                       (IF BadAmongFirst(Qualifying(t, f), 100) THEN "FAIL" ELSE "PASS")
           /\ ChecksOf(t, f)["system_codes_check"] =>
                /\ Len(FindingsOfType(t, f, "system_codes_check")) = 1
                /\ StatusOf(t, f, "system_codes_check") =
                       (IF BadAmongFirst(QualifyingDistinct(t, f), 100)
                        THEN "FAIL" ELSE "PASS")

Wit_C12_SampleBound ==
    \E tf \in DispatchedFields :
        /\ ChecksOf(tf[1], tf[2])["email_check"]
        /\ ChecksOf(tf[1], tf[2])["system_codes_check"]
        /\ Len(Qualifying(tf[1], tf[2])) = 101
        /\ Len(QualifyingDistinct(tf[1], tf[2])) = 101
        /\ IsBad(Qualifying(tf[1], tf[2])[101])
        /\ Len(FieldFindings(tf[1], tf[2])) = 2
        /\ StatusOf(tf[1], tf[2], "email_check") = "PASS"
        /\ StatusOf(tf[1], tf[2], "system_codes_check") = "PASS"

\* the first 100 of a sequence of values
First100(seq) == SubSeq(seq, 1, IF Len(seq) < 100 THEN Len(seq) ELSE 100)

\* the codes declared for field f of table t, upper-cased
DeclaredUpper(t, f) ==
    LET declared == GetValidSystemCodes(system_codes_config, t, f)
    IN {Upper(declared[i]) : i \in DOMAIN declared}

\* value v fails the check of kind c on field f of table t
InvalidFor(t, f, c, v) ==
    IF c = "email_check" THEN ~IsValidEmail(Strip(v))
    ELSE /\ DeclaredUpper(t, f) # {}
         /\ Upper(Strip(v)) \notin DeclaredUpper(t, f)

\* the values the check of kind c inspects on field f of table t
SampleOf(t, f, c) ==
    IF c = "email_check" THEN First100(Qualifying(t, f))
    ELSE First100(QualifyingDistinct(t, f))

InvalidInSample(t, f, c) ==
    Len(SelectSeq(SampleOf(t, f, c), LAMBDA v : InvalidFor(t, f, c, v)))

(***************************************************************************)
(* C13.  With every query succeeding, the email_check and the               *)
(* system_codes_check Finding of a field with qualifying values is FAIL iff *)
(* a sampled value is invalid, and the FAIL message reports the number of   *)
(* invalid values in the sample out of the number of values sampled.        *)
(***************************************************************************)
Claim_C13_MessageOverSample ==
    \A tf \in DispatchedFields : \A c \in SampledKinds :
        (/\ HasData(tf[1], tf[2])
         /\ ChecksOf(tf[1], tf[2])[c]
         /\ ~NoValues(tf[1], tf[2])
         /\ last.fault = NoFault)
        => LET invalid == InvalidInSample(tf[1], tf[2], c)
               sampled == Len(SampleOf(tf[1], tf[2], c))
               fs == FindingsOfType(tf[1], tf[2], c)
           IN /\ Len(fs) = 1
              /\ fs[1].status = (IF invalid > 0 THEN "FAIL" ELSE "PASS")
              /\ invalid > 0 =>
                    /\ StartsWith(fs[1].message, "Found " \o ToString(invalid) \o " invalid ")
                    /\ Contains(fs[1].message,
                                " out of " \o ToString(sampled) \o " values")

\* characters c and d are the same letter in either case, or the same character
SameNoCase(c, d) ==
    \/ c = d
    \/ \E k \in 1..Len(LowerLetters) :
           {c, d} = {CharAt(LowerLetters, k), CharAt(UpperLetters, k)}

\* strings a and b are equal but for the case of their letters
EqualNoCase(a, b) ==
    /\ Len(a) = Len(b)
    /\ \A i \in 1..Len(a) : SameNoCase(CharAt(a, i), CharAt(b, i))

DeclaredCodes(t, f) ==
    LET declared == GetValidSystemCodes(system_codes_config, t, f)
    IN {declared[i] : i \in DOMAIN declared}

\* the system-code check of field f of table t ran to its Finding against a
\* non-empty list of declared codes
CodesChecked(t, f) ==
    /\ HasData(t, f)
    /\ ChecksOf(t, f)["system_codes_check"]
    /\ ~NoValues(t, f)
    /\ DeclaredCodes(t, f) # {}
    /\ last.fault = NoFault

(***************************************************************************)
(* C14 as claimed.  An observed value is accepted iff it equals a declared  *)
(* code but for case: the system_codes_check Finding is PASS iff every      *)
(* observed value does.                                                     *)
(***************************************************************************)
Claim_C14_CaseOnly ==
    \A tf \in DispatchedFields :
        CodesChecked(tf[1], tf[2])
        => LET values == QualifyingDistinct(tf[1], tf[2])
               fs == FindingsOfType(tf[1], tf[2], "system_codes_check")
           IN /\ Len(fs) = 1
              /\ fs[1].status = "PASS"
                 <=> \A i \in DOMAIN values :
                        \E code \in DeclaredCodes(tf[1], tf[2]) :
                            EqualNoCase(values[i], code)

(***************************************************************************)
(* C14 as the code has it.  An observed value is accepted iff, with its     *)
(* surrounding whitespace removed, it equals a declared code but for case:  *)
(* the system_codes_check Finding is PASS iff every observed value does, so *)
(* the declared codes AB and cd accept ab and CD.                           *)
(***************************************************************************)
Thm_C14_CaseInsensitive ==
    \A tf \in DispatchedFields :
        CodesChecked(tf[1], tf[2])
        => LET values == QualifyingDistinct(tf[1], tf[2])
               fs == FindingsOfType(tf[1], tf[2], "system_codes_check")
           IN /\ Len(fs) = 1
              /\ fs[1].status = "PASS"
                 <=> \A i \in DOMAIN values :
                        \E code \in DeclaredCodes(tf[1], tf[2]) :
                            EqualNoCase(Strip(values[i]), code)

Wit_C14_CaseInsensitive ==
    \E tf \in DispatchedFields :
        /\ CodesChecked(tf[1], tf[2])
        /\ DeclaredCodes(tf[1], tf[2]) = {"AB", "cd"}
        /\ ColumnOf(tf[1], tf[2]) = <<"ab", "CD">>
        /\ Len(FieldFindings(tf[1], tf[2])) = 1
        /\ StatusOf(tf[1], tf[2], "system_codes_check") = "PASS"

\* the CodeList declares no code for field f of table t
NoCodesDeclared(t, f) ==
    \A i \in DOMAIN system_codes_config :
        system_codes_config[i].k = t =>
            \A j \in DOMAIN system_codes_config[i].v :
                system_codes_config[i].v[j].k = f => system_codes_config[i].v[j].v = <<>>

(***************************************************************************)
(* C15.  With system_codes_check enabled on a field for which the CodeList  *)
(* declares no code (no entry for the table, none for the field, or an      *)
(* empty list), no system_codes_check Finding of the field is FAIL,         *)
(* whatever the column holds.                                               *)
(***************************************************************************)
Thm_C15_NoCodesNeverFail ==
    \A tf \in DispatchedFields :
        (/\ ChecksOf(tf[1], tf[2])["system_codes_check"]
         /\ NoCodesDeclared(tf[1], tf[2]))
        => \A i \in DOMAIN FieldFindings(tf[1], tf[2]) :
               LET x == FieldFindings(tf[1], tf[2])[i]
               IN x.check_type = "system_codes_check" => x.status # "FAIL"

Wit_C15_NoCodesNeverFail ==
    \E tf \in DispatchedFields :
        /\ ChecksOf(tf[1], tf[2])["system_codes_check"]
        /\ NoCodesDeclared(tf[1], tf[2])
        /\ DictHas(system_codes_config, tf[1])
        /\ ~DictHas(DictGet(system_codes_config, tf[1]), tf[2])
        /\ ColumnOf(tf[1], tf[2]) = <<"x", "ab">>
        /\ Len(FindingsOfType(tf[1], tf[2], "system_codes_check")) = 1
        /\ StatusOf(tf[1], tf[2], "system_codes_check") = "PASS"

\* the duplicate check of field f of table t ran to its Finding
DuplicatesChecked(t, f) ==
    /\ HasData(t, f)
    /\ ChecksOf(t, f)["duplicate_check"]
    /\ last.fault = NoFault

\* the non-NULL values of field f of table t that occur more than once
Repeated(t, f) ==
    {v \in {ColumnOf(t, f)[i] : i \in DOMAIN ColumnOf(t, f)} \ {NULL} :
        TrueCount(t, f, v) > 1}

\* the rows of field f of table t that repeat the non-NULL value of an
\* earlier row: occurrences - 1 for each value, summed
RepeatRows(t, f) ==
    {i \in DOMAIN ColumnOf(t, f) :
        /\ ColumnOf(t, f)[i] # NULL
        /\ \E j \in 1..(i - 1) : ColumnOf(t, f)[j] = ColumnOf(t, f)[i]}

(***************************************************************************)
(* C16.  With duplicate_check enabled (column present, table non-empty,     *)
(* every query succeeding) the field gets one duplicate_check Finding:      *)
(* FAIL iff some non-NULL value occurs more than once, and then its message *)
(* reports the sum of (occurrences - 1) over those values as the duplicate  *)
(* total and their number as the number of distinct values; PASS otherwise. *)
(***************************************************************************)
Thm_C16_DuplicateCheck ==
    \A tf \in DispatchedFields :
        DuplicatesChecked(tf[1], tf[2])
        => LET fs == FindingsOfType(tf[1], tf[2], "duplicate_check")
               repeated == Repeated(tf[1], tf[2])
               total == Cardinality(RepeatRows(tf[1], tf[2]))
           IN /\ Len(fs) = 1
              /\ fs[1].status = (IF repeated # {} THEN "FAIL" ELSE "PASS")
              /\ repeated # {} =>
                    fs[1].message =
                        "Found " \o ToString(total) \o " duplicate values across "
                        \o ToString(Cardinality(repeated)) \o " distinct values"

Wit_C16_DuplicateCheck ==
    \E tf \in DispatchedFields :
        /\ DuplicatesChecked(tf[1], tf[2])
        /\ ColumnOf(tf[1], tf[2]) = <<"1", NULL, "", "1">>
        /\ StatusOf(tf[1], tf[2], "duplicate_check") = "FAIL"

\* the run of the duplicate example: the column 1, 1, 2, 3, 3, 3
DuplicateExample ==
    /\ Dispatched("users")
    /\ DuplicatesChecked("users", "email")
    /\ ColumnOf("users", "email") = <<"1", "1", "2", "3", "3", "3">>

(***************************************************************************)
(* C17 as claimed.  On the column 1, 1, 2, 3, 3, 3 duplicate_check reports  *)
(* FAIL with a duplicate total of 2 across 2 distinct values.               *)
(***************************************************************************)
Claim_C17_ExampleTotalTwo ==
    DuplicateExample
    => FindingsOfType("users", "email", "duplicate_check") =
           <<Finding("users", "email", "duplicate_check", "FAIL",
                     "Found 2 duplicate values across 2 distinct values")>>

(***************************************************************************)
(* C17 as the code has it.  On the column 1, 1, 2, 3, 3, 3 duplicate_check  *)
(* reports FAIL with a duplicate total of (2-1)+(3-1) = 3 across 2 distinct *)
(* values.                                                                  *)
(***************************************************************************)
Thm_C17_ExampleTotalThree ==
    DuplicateExample
    => FindingsOfType("users", "email", "duplicate_check") =
           <<Finding("users", "email", "duplicate_check", "FAIL",
                     "Found 3 duplicate values across 2 distinct values")>>

Wit_C17_ExampleTotalThree ==
    /\ DuplicateExample
    /\ last.op = "run_all_checks"
    /\ Len(FindingsOfType("users", "email", "duplicate_check")) = 1

\* the flags the loader stores and the dispatcher has no branch for
InertFlags == {"max_value_check", "min_value_check", "max_count_check"}

\* configuration cfg with the inert flags of every field set to on
WithInert(cfg, on) ==
    [i \in DOMAIN cfg |->
        [k |-> cfg[i].k,
         v |-> [j \in DOMAIN cfg[i].v |->
                   [k |-> cfg[i].v[j].k,
                    v |-> [c \in DOMAIN cfg[i].v[j].v |->
                              IF c \in InertFlags THEN on ELSE cfg[i].v[j].v[c]]]]]]

\* the report of the last run, had the configuration been cfg
RerunWith(cfg) ==
    IF last.op = "run_all_checks"
    THEN RunAllChecks(cfg, system_codes_config, db, last.fault)
    ELSE RunChecksForSpecificTable(cfg, system_codes_config, db, last.table, last.fault)

(***************************************************************************)
(* C18.  max_value_check, min_value_check and max_count_check are stored    *)
(* in the RuleSet and never evaluated: the report of a run is the report    *)
(* the same run gives with the three flags of every field enabled, and the  *)
(* one it gives with them disabled.                                         *)
(***************************************************************************)
Thm_C18_InertFlags ==
    IsRun => /\ results = RerunWith(WithInert(checks_config, TRUE))
             /\ results = RerunWith(WithInert(checks_config, FALSE))

Wit_C18_InertFlags ==
    \E tf \in DispatchedFields :
        /\ HasData(tf[1], tf[2])
        /\ \A c \in InertFlags : ChecksOf(tf[1], tf[2])[c]
        /\ ChecksOf(tf[1], tf[2])["null_check"]
        /\ last.fault = NoFault
        /\ checks_config # WithInert(checks_config, FALSE)
        /\ Len(FieldFindings(tf[1], tf[2])) >= 3

\* the last run covered table t, which the configuration names
Covered(t) ==
    /\ IsRun
    /\ last.op = "run_all_checks" \/ last.table = t
    /\ DictHas(checks_config, t)

\* the Findings of status ERROR the last run reported for field f of table t
ErrorFindings(t, f) == SelectSeq(FieldFindings(t, f), LAMBDA x : x.status = "ERROR")

(***************************************************************************)
(* C19.  A failing introspection query is not answered "not found": when    *)
(* the column lookup of a field of an existing table fails, or the lookup   *)
(* of a configured table does, each affected field gets a Finding of status *)
(* ERROR and no column_existence Finding, and the table is not skipped.     *)
(***************************************************************************)
Claim_C19_IntrospectionFailureIsError ==
    \A tf \in Entries(checks_config) :
        (/\ Covered(tf[1])
         /\ tf[1] \in DOMAIN db
         /\ \/ Raises(last.fault, tf[1], tf[2], "table_info")
            \/ Raises(last.fault, tf[1], "", "table_exists"))
        => /\ ErrorFindings(tf[1], tf[2]) # <<>>
           /\ FindingsOfType(tf[1], tf[2], "column_existence") = <<>>

\* the last run issued query q for field f of table t
Issued(t, f, q) ==
    LET on(c) == ChecksOf(t, f)[c] IN
    CASE q = "count_rows" -> f \in db[t].cols
      [] q = "count_null" -> HasData(t, f) /\ on("null_check")
      [] q = "count_blank" -> HasData(t, f) /\ on("blank_check")
      [] q = "count_email" -> HasData(t, f) /\ on("email_check")
      [] q = "select_email" -> HasData(t, f) /\ on("email_check") /\ ~NoValues(t, f)
      [] q = "count_codes" -> HasData(t, f) /\ on("system_codes_check")
      [] q = "select_codes" ->
             HasData(t, f) /\ on("system_codes_check") /\ ~NoValues(t, f)
      [] q = "select_duplicates" -> HasData(t, f) /\ on("duplicate_check")
      [] OTHER -> FALSE

(***************************************************************************)
(* C20.  When the query that counts the rows, or a query of one of the      *)
(* checks of a field, fails, the field gets exactly one Finding of check    *)
(* type database_error; its status is ERROR, it is the field's last Finding *)
(* and the field's only Finding of that status.                             *)
(***************************************************************************)
Thm_C20_OneDatabaseError ==
    \A tf \in DispatchedFields :
        (/\ last.fault.table = tf[1]
         /\ last.fault.field = tf[2]
         /\ Issued(tf[1], tf[2], last.fault.query))
        => LET fs == FieldFindings(tf[1], tf[2]) IN
           /\ Len(FindingsOfType(tf[1], tf[2], "database_error")) = 1
           /\ Len(ErrorFindings(tf[1], tf[2])) = 1
           /\ fs[Len(fs)].check_type = "database_error"
           /\ fs[Len(fs)].status = "ERROR"

Wit_C20_OneDatabaseError ==
    \E tf \in DispatchedFields :
        /\ Raises(last.fault, tf[1], tf[2], "count_blank")
        /\ Issued(tf[1], tf[2], "count_blank")
        /\ ChecksOf(tf[1], tf[2])["null_check"]
        /\ Len(FieldFindings(tf[1], tf[2])) = 2
        /\ FieldFindings(tf[1], tf[2])[1].check_type = "null_check"
        /\ FieldFindings(tf[1], tf[2])[2].check_type = "database_error"

\* the Findings a report holds for field f of table t
FindingsIn(report, t, f) ==
    IF DictHas(report, t)
    THEN SelectSeq(DictGet(report, t), LAMBDA x : x.table = t /\ x.field = f)
    ELSE <<>>

\* configuration cfg without field f of table t, and without the table when
\* that was its only field
Without(cfg, t, f) ==
    LET pruned == [i \in DOMAIN cfg |->
                      [k |-> cfg[i].k,
                       v |-> IF cfg[i].k = t
                             THEN SelectSeq(cfg[i].v, LAMBDA e : e.k # f)
                             ELSE cfg[i].v]]
    IN SelectSeq(pruned, LAMBDA e : e.k # t \/ e.v # <<>>)

\* the last run reported a missing column or a failed query for field f of t
Failing(t, f) ==
    \E n \in DOMAIN FieldFindings(t, f) :
        FieldFindings(t, f)[n].check_type \in {"column_existence", "database_error"}

(***************************************************************************)
(* C21.  A column_existence FAIL or a database_error ERROR of one field     *)
(* does not stop the run: every other configured field contributes the     *)
(* Findings it contributes to the same run of a RuleSet that does not       *)
(* configure the failing field.                                             *)
(***************************************************************************)
Thm_C21_FailureDoesNotStopRun ==
    IsRun =>
        \A tf \in Entries(checks_config) :
            Failing(tf[1], tf[2]) =>
                \A g \in Entries(checks_config) \ {tf} :
                    FieldFindings(g[1], g[2]) =
                        FindingsIn(RerunWith(Without(checks_config, tf[1], tf[2])),
                                   g[1], g[2])

Wit_C21_FailureDoesNotStopRun ==
    /\ last.op = "run_all_checks"
    /\ \E tf \in Entries(checks_config) : \E g \in Entries(checks_config) :
       \E h \in Entries(checks_config) :
           /\ Failing(tf[1], tf[2])
           /\ FindingsOfType(tf[1], tf[2], "database_error") # <<>>
           /\ g[1] = tf[1] /\ g[2] # tf[2] /\ h[1] # tf[1]
           /\ ~Failing(g[1], g[2]) /\ ~Failing(h[1], h[2])
           /\ DictGet(results, tf[1])[1].field = tf[2]
           /\ Len(FieldFindings(g[1], g[2])) >= 2
           /\ FieldFindings(h[1], h[2]) # <<>>

\* every Finding of a report, table by table
AllFindings(report) ==
    UNION {{report[i].v[n] : n \in DOMAIN report[i].v} : i \in DOMAIN report}

(***************************************************************************)
(* C22.  A table the RuleSet configures and the data source does not hold   *)
(* has no entry in the report of run_all or run_for_table, and no Finding   *)
(* of the report names it.                                                  *)
(***************************************************************************)
Thm_C22_AbsentTableNoEntry ==
    IsRun =>
        \A t \in DictKeys(checks_config) :
            t \notin DOMAIN db =>
                /\ ~DictHas(results, t)
                /\ \A x \in AllFindings(results) : x.table # t

Wit_C22_AbsentTableNoEntry ==
    /\ last.op = "run_all_checks"
    /\ last.fault = NoFault
    /\ \E t \in DictKeys(checks_config) : \E u \in DictKeys(checks_config) :
           /\ t \notin DOMAIN db
           /\ DictGet(checks_config, t) # EmptyDict
           /\ \A e \in Entries(checks_config) : ChecksOf(e[1], e[2])["null_check"]
           /\ u \in DOMAIN db
           /\ DictKeys(results) = {u}

(***************************************************************************)
(* C23.  Every table key of a report maps to a non-empty list of Findings   *)
(* (a table whose fields produced no Finding has no entry), and every       *)
(* Finding under a table carries the name of that table and of a field the  *)
(* RuleSet configures for it.                                               *)
(***************************************************************************)
Thm_C23_EntriesNonEmpty ==
    IsRun =>
        \A i \in DOMAIN results :
            /\ results[i].v # <<>>
            /\ \A n \in DOMAIN results[i].v :
                   /\ results[i].v[n].table = results[i].k
                   /\ <<results[i].k, results[i].v[n].field>> \in Entries(checks_config)

Wit_C23_EntriesNonEmpty ==
    /\ last.op = "run_all_checks"
    /\ last.fault = NoFault
    /\ \E tf \in DispatchedFields : \E g \in DispatchedFields :
           /\ HasData(tf[1], tf[2])
           /\ \A c \in FlagColumns : ~ChecksOf(tf[1], tf[2])[c]
           /\ DictGet(checks_config, tf[1]) = <<[k |-> tf[2], v |-> ChecksOf(tf[1], tf[2])]>>
           /\ ~DictHas(results, tf[1])
           /\ DictKeys(results) = {g[1]}

\* the entries of a report for table t
Restrict(report, t) == SelectSeq(report, LAMBDA e : e.k = t)

(***************************************************************************)
(* C24.  run_for_table(name) is run_all restricted to one table: its report *)
(* is the report of run_all with every entry but that of name removed, for  *)
(* a name that is configured or not, in the data source or not, with or     *)
(* without Findings.                                                        *)
(***************************************************************************)
Thm_C24_RunForTableIsRestriction ==
    /\ last.op = "run_checks_for_specific_table" =>
           results = Restrict(RunAllChecks(checks_config, system_codes_config, db,
                                           last.fault),
                              last.table)
    /\ last.op = "run_all_checks" =>
           \A t \in Tables :
               Restrict(results, t) =
                   RunChecksForSpecificTable(checks_config, system_codes_config, db, t,
                                             last.fault)

Wit_C24_RunForTableIsRestriction ==
    /\ last.op = "run_checks_for_specific_table"
    /\ last.fault = NoFault
    /\ DictKeys(results) = {last.table}
    /\ Len(DictGet(results, last.table)) >= 2
    /\ DictKeys(RunAllChecks(checks_config, system_codes_config, db, NoFault)) = Tables

\* the places of table t and of its field f in the RuleSet
TablePos(t) == CHOOSE i \in DOMAIN checks_config : checks_config[i].k = t
FieldPos(t, f) ==
    CHOOSE j \in DOMAIN checks_config[TablePos(t)].v :
        checks_config[TablePos(t)].v[j].k = f

\* the place of a Finding among the Findings of its field
Rank(check_type) ==
    CASE check_type = "null_check" -> 1
      [] check_type = "blank_check" -> 2
      [] check_type = "email_check" -> 3
      [] check_type = "system_codes_check" -> 4
      [] check_type = "duplicate_check" -> 5
      [] check_type = "database_error" -> 6
      [] OTHER -> 0

(***************************************************************************)
(* C25.  The tables of a report follow the order of the RuleSet; within a   *)
(* table the Findings follow the order of its fields in the RuleSet, so     *)
(* those of two fields are never interleaved; within a field they follow    *)
(* the order null, blank, email, system-code, duplicate.                    *)
(***************************************************************************)
Thm_C25_ReportOrder ==
    IsRun =>
        /\ \A i \in DOMAIN results : \A j \in DOMAIN results :
               i < j => TablePos(results[i].k) < TablePos(results[j].k)
        /\ \A i \in DOMAIN results :
               LET t == results[i].k
                   fs == results[i].v
               IN \A m \in DOMAIN fs : \A n \in DOMAIN fs :
                      m < n =>
                          /\ FieldPos(t, fs[m].field) <= FieldPos(t, fs[n].field)
                          /\ fs[m].field = fs[n].field =>
                                 Rank(fs[m].check_type) < Rank(fs[n].check_type)

Wit_C25_ReportOrder ==
    /\ last.op = "run_all_checks"
    /\ Len(results) = 2
    /\ Len(checks_config[1].v) = 2
    /\ LET fs == results[1].v IN
       /\ Len(fs) = 10
       /\ \A n \in 1..5 : fs[n].field = checks_config[1].v[1].k /\ Rank(fs[n].check_type) = n
       /\ \A n \in 6..10 : fs[n].field = checks_config[1].v[2].k

\* a summary that counts every Finding of the last report once
CountsEveryFinding(summary) ==
    LET findings == AllFindings(results)
        with(statuses) == Cardinality({x \in findings : x.status \in statuses})
    IN /\ summary.total = summary.passed + summary.failed + summary.warnings
       /\ summary.passed = with({"PASS"})
       /\ summary.warnings = with({"WARNING"})
       /\ summary.failed = with({"FAIL", "ERROR"})

(***************************************************************************)
(* C26.  The summary each of the three callers computes from the report of  *)
(* a run counts every Finding once: total = passed + failed + warnings,     *)
(* with PASS counted as passed, WARNING as warnings, FAIL and ERROR as      *)
(* failed.                                                                  *)
(***************************************************************************)
Claim_C26_SummaryCountsEveryFinding ==
    IsRun =>
        /\ CountsEveryFinding(SummaryMain(results))
        /\ CountsEveryFinding(SummaryApi12(results))
        /\ CountsEveryFinding(SummaryApiServer(results))

\* text is the one character 1
IsOne(text) == Len(text) = 1 /\ CharAt(text, 1) = "1"

(***************************************************************************)
(* C27.  A flag is enabled iff its column holds exactly the text 1: a load  *)
(* of a row whose flag columns hold other texts ("true", "1 " with a        *)
(* blank, the empty text, "0") succeeds and stores those flags as disabled. *)
(***************************************************************************)
Thm_C27_FlagIsLiteralOne ==
    LoadedRules =>
        /\ results = TRUE
        /\ \A i \in DOMAIN last.src.rows :
               LET row == last.src.rows[i]
                   stored == ChecksOf(Strip(row["table_name"]), Strip(row["field_name"]))
               IN \A c \in FlagColumns : stored[c] <=> IsOne(row[c])

Wit_C27_FlagIsLiteralOne ==
    /\ LoadedRules
    /\ results = TRUE
    /\ last.src.rows[1]["null_check"] = "1"
    /\ last.src.rows[1]["blank_check"] = "1 "
    /\ last.src.rows[1]["date_check"] = "true"
    /\ {c \in FlagColumns : ChecksOf("users", "email")[c]} = {"null_check"}

\* key is raw without the whitespace around it
IsTrimOf(key, raw) ==
    /\ key # "" => /\ CharAt(key, 1) \notin Whitespace
                   /\ CharAt(key, Len(key)) \notin Whitespace
    /\ \E i \in 1..(Len(raw) + 1 - Len(key)) :
           /\ SubSeq(raw, i, i + Len(key) - 1) = key
           /\ \A n \in 1..Len(raw) :
                  (n < i \/ n >= i + Len(key)) => CharAt(raw, n) \in Whitespace

\* entry e is the key of a row of the last loaded source
KeyOfSomeRow(e) ==
    \E i \in DOMAIN last.src.rows :
        /\ IsTrimOf(e[1], last.src.rows[i]["table_name"])
        /\ IsTrimOf(e[2], last.src.rows[i]["field_name"])

\* no table and no field of a table is a key of cfg twice
DistinctKeys(cfg) ==
    /\ \A i \in DOMAIN cfg : \A j \in DOMAIN cfg : cfg[i].k = cfg[j].k => i = j
    /\ \A i \in DOMAIN cfg : \A m \in DOMAIN cfg[i].v : \A n \in DOMAIN cfg[i].v :
           cfg[i].v[m].k = cfg[i].v[n].k => m = n

\* the keys of cfg are the keys of the entries before and of the rows loaded
KeysAreTrimmedNames(cfg, before) ==
    /\ DistinctKeys(cfg)
    /\ \A i \in DOMAIN last.src.rows :
           \E e \in Entries(cfg) :
               /\ IsTrimOf(e[1], last.src.rows[i]["table_name"])
               /\ IsTrimOf(e[2], last.src.rows[i]["field_name"])
    /\ \A e \in Entries(cfg) : e \in before \/ KeyOfSomeRow(e)

(***************************************************************************)
(* C28.  The keys of the RuleSet and of the CodeList are the table_name     *)
(* and field_name of the rows without their surrounding whitespace, letter  *)
(* case kept: rows whose names differ in surrounding whitespace only share  *)
(* one key, rows whose names differ in letter case have different keys.     *)
(***************************************************************************)
Thm_C28_KeysTrimmedCaseSensitive ==
    /\ LoadedRules => KeysAreTrimmedNames(checks_config, Entries(last.before))
    /\ LoadedCodes => KeysAreTrimmedNames(system_codes_config, {})

Wit_C28_KeysTrimmedCaseSensitive ==
    /\ LoadedCodes
    /\ Len(last.src.rows) = 3
    /\ last.src.rows[1]["table_name"] = " users "
    /\ last.src.rows[2]["field_name"] = "email "
    /\ last.src.rows[3]["table_name"] = "Users"
    /\ Entries(system_codes_config) = {<<"users", "email">>, <<"Users", "email">>}
    /\ Entries(checks_config) = {<<"users", "email">>, <<"users", "EMAIL">>}

\* text without its whitespace and its commas
RECURSIVE Squeeze(_)
Squeeze(text) ==
    IF text = "" THEN ""
    ELSE (IF CharAt(text, 1) \in Whitespace \cup {","} THEN "" ELSE CharAt(text, 1))
         \o Squeeze(SubSeq(text, 2, Len(text)))

RECURSIVE SqueezeAll(_)
SqueezeAll(tokens) ==
    IF tokens = <<>> THEN "" ELSE Squeeze(Head(tokens)) \o SqueezeAll(Tail(tokens))

\* the places of text where a token starts: the first character that is no
\* whitespace after the start of the text or after a comma
TokenStarts(text) ==
    {i \in 1..Len(text) :
        /\ CharAt(text, i) \notin Whitespace \cup {","}
        /\ \A j \in 1..(i - 1) :
               (\A n \in j..(i - 1) : CharAt(text, n) # ",")
               => CharAt(text, j) \in Whitespace}

\* tokens are the comma-separated pieces of text, trimmed, the empty ones
\* dropped, in the order of the text
TokensOf(tokens, text) ==
    /\ Len(tokens) = Cardinality(TokenStarts(text))
    /\ SqueezeAll(tokens) = Squeeze(text)
    /\ \A n \in DOMAIN tokens :
           /\ tokens[n] # ""
           /\ CharAt(tokens[n], 1) \notin Whitespace
           /\ CharAt(tokens[n], Len(tokens[n])) \notin Whitespace
           /\ ~Contains(tokens[n], ",")
           /\ Contains(text, tokens[n])

\* the valid_codes text of the last row of the loaded source that names
\* field f of table t
LastDeclared(t, f) ==
    LET rows == last.src.rows
        named == {i \in DOMAIN rows :
                     rows[i]["table_name"] = t /\ rows[i]["field_name"] = f}
    IN rows[CHOOSE i \in named : \A j \in named : j <= i]["valid_codes"]

(***************************************************************************)
(* C29.  A successful load of the CodeList stores for each field the        *)
(* comma-separated tokens of its valid_codes text, each trimmed, the empty  *)
(* ones dropped, in source order: no stored code is empty or has            *)
(* surrounding whitespace.                                                  *)
(***************************************************************************)
Thm_C29_CodesSplitTrimmed ==
    (LoadedCodes /\ results = TRUE) =>
        \A e \in Entries(system_codes_config) :
            TokensOf(GetValidSystemCodes(system_codes_config, e[1], e[2]),
                     LastDeclared(e[1], e[2]))

Wit_C29_CodesSplitTrimmed ==
    /\ LoadedCodes
    /\ results = TRUE
    /\ <<"users", "email">> \in Entries(system_codes_config)
    /\ LastDeclared("users", "email") = " a@b.com ,, x"
    /\ GetValidSystemCodes(system_codes_config, "users", "email") = <<"a@b.com", "x">>

\* a step from the report of one run to the report of the same call again
SameCallAgain ==
    /\ IsRun /\ IsRun'
    /\ last'.op = last.op /\ last'.table = last.table /\ last'.fault = last.fault

(***************************************************************************)
(* C30.  Runs are re-entrant and deterministic: a run leaves the RuleSet,   *)
(* the CodeList and the data as it found them, so no later run depends on   *)
(* it, and the same call made again right after a run returns an equal      *)
(* report.                                                                  *)
(***************************************************************************)
Thm_C30_RunsRepeatable ==
    [][/\ IsRun' => UNCHANGED <<checks_config, system_codes_config, db>>
       /\ SameCallAgain => results' = results]_vars

Wit_C30_RunsRepeatable ==
    /\ last.op = "run_all_checks"
    /\ last.runs = 2
    /\ last.fault = NoFault
    /\ results # <<>>
    /\ results = RerunWith(checks_config)

(***************************************************************************)
(* C31.  A run is read-only: every step that ends in the report of a run,   *)
(* whatever Findings the report holds, leaves the RuleSet, the CodeList and *)
(* the tables and rows of the data source as they were.                     *)
(***************************************************************************)
Thm_C31_RunIsReadOnly ==
    [][IsRun' => /\ checks_config' = checks_config
                 /\ system_codes_config' = system_codes_config
                 /\ db' = db]_vars

Wit_C31_RunIsReadOnly ==
    /\ last.op = "run_checks_for_specific_table"
    /\ last.table = "users"
    /\ ErrorFindings("users", "email") # <<>>
    /\ checks_config # EmptyDict
    /\ system_codes_config # EmptyDict
    /\ CountRows(db, "users") > 0

\* the place in the program order of the check that issues query q
QueryRank(q) ==
    CASE q = "count_rows" -> 0
      [] q = "count_null" -> 1
      [] q = "count_blank" -> 2
      [] q \in {"count_email", "select_email"} -> 3
      [] q \in {"count_codes", "select_codes"} -> 4
      [] q = "select_duplicates" -> 5
      [] OTHER -> 6

\* the report of the last run, had no query failed
RerunUnfailing ==
    IF last.op = "run_all_checks"
    THEN RunAllChecks(checks_config, system_codes_config, db, NoFault)
    ELSE RunChecksForSpecificTable(checks_config, system_codes_config, db,
                                   last.table, NoFault)

(***************************************************************************)
(* C33.  When a query of a field fails, the field's Findings are those the  *)
(* checks before the failing one give when no query fails, followed by the  *)
(* database_error Finding: earlier Findings are kept, the ERROR is last,    *)
(* and the failing check and the checks after it add nothing.               *)
(***************************************************************************)
Thm_C33_PartialFindingsKept ==
    \A tf \in DispatchedFields :
        (/\ last.fault.table = tf[1]
         /\ last.fault.field = tf[2]
         /\ Issued(tf[1], tf[2], last.fault.query))
        => LET fs == FieldFindings(tf[1], tf[2])
               earlier == SelectSeq(FindingsIn(RerunUnfailing, tf[1], tf[2]),
                                    LAMBDA x : Rank(x.check_type)
                                                   < QueryRank(last.fault.query))
           IN /\ Len(fs) = Len(earlier) + 1
              /\ SubSeq(fs, 1, Len(earlier)) = earlier
              /\ fs[Len(fs)].check_type = "database_error"
              /\ fs[Len(fs)].status = "ERROR"

Wit_C33_PartialFindingsKept ==
    \E tf \in DispatchedFields :
        /\ Raises(last.fault, tf[1], tf[2], "count_email")
        /\ Issued(tf[1], tf[2], "count_email")
        /\ \A c \in {"null_check", "blank_check", "system_codes_check", "duplicate_check"} :
               ChecksOf(tf[1], tf[2])[c]
        /\ Len(FieldFindings(tf[1], tf[2])) = 3
        /\ Len(FindingsIn(RerunUnfailing, tf[1], tf[2])) = 5

\* the last row of src that declares field f of table t
LastRowFor(src, t, f) ==
    LET at == {i \in DOMAIN src.rows :
                  IsTrimOf(t, src.rows[i]["table_name"])
                  /\ IsTrimOf(f, src.rows[i]["field_name"])}
    IN src.rows[CHOOSE i \in at : \A j \in at : j <= i]

(***************************************************************************)
(* C39.  load_checks_config is last-row-wins and idempotent: after a        *)
(* successful load every field the source declares holds the flags of the   *)
(* last row that declares it, and loading the same source once more         *)
(* succeeds and leaves the RuleSet as it is.                                *)
(***************************************************************************)
Thm_C39_LastRowWinsIdempotent ==
    (LoadedRules /\ results = TRUE) =>
        /\ \A tf \in Declared(last.src) :
               /\ <<tf[1], tf[2]>> \in Entries(checks_config)
               /\ \A c \in FlagColumns :
                      ChecksOf(tf[1], tf[2])[c]
                          = (LastRowFor(last.src, tf[1], tf[2])[c] = "1")
        /\ LoadChecksConfig(checks_config, last.src)
               = [cfg |-> checks_config, ok |-> TRUE]

Wit_C39_LastRowWinsIdempotent ==
    /\ LoadedRules /\ results = TRUE
    /\ Len(last.src.rows) = 2
    /\ Declared(last.src) = {<<"users", "email">>}
    /\ last.src.rows[1]["null_check"] = "1"
    /\ last.src.rows[2]["null_check"] = "0"
    /\ ~ChecksOf("users", "email")["null_check"]
    /\ last.before = checks_config
    /\ Len(checks_config) = 2

\* the session the last request named
Named == sessions[last.session_id]

(***************************************************************************)
(* C32.  Sessions share no mutable state: whatever request is served        *)
(* (create, upload, run, results, delete), every session other than the     *)
(* one the request names stays, with its checker's RuleSet and CodeList,    *)
(* its data-source handle and its stored results as they were.              *)
(***************************************************************************)
Thm_C32_SessionsIsolated ==
    [][\A other \in DOMAIN sessions :
           other # last'.session_id =>
               /\ other \in DOMAIN sessions'
               /\ sessions'[other] = sessions[other]]_vars

Wit_C32_SessionsIsolated ==
    /\ DOMAIN sessions = SessionIds
    /\ last.op = "run_data_quality_checks" /\ last.session_id = "s1"
    /\ results.status_code = 200
    /\ sessions["s1"].results # None
    /\ sessions["s2"].checker # None
    /\ sessions["s2"].checker[1].checks_config # EmptyDict
    /\ sessions["s2"].db_connection # sessions["s1"].db_connection
    /\ sessions["s2"].results = None

(***************************************************************************)
(* C34.  After a completed run of a session the results the session stores  *)
(* are the Report of that run, also when the Report is empty.               *)
(***************************************************************************)
Claim_C34_StoredResultsAreLastRun ==
    (/\ last.op = "run_quality_checks"
     /\ last.session_id \in DOMAIN sessions
     /\ results.status_code = 200)
    => Named.results = last.report

(***************************************************************************)
(* C35.  Once a run has completed for a session, get_results and            *)
(* export_results (of a valid format and check type) succeed and return     *)
(* the stored report; they answer 404 only when no run has completed.       *)
(***************************************************************************)
Claim_C35_CompletedRunIsServed ==
    (/\ last.op \in {"get_results", "export_results"}
     /\ last.session_id \in DOMAIN sessions
     /\ last.op = "export_results" =>
            (last.format = "json" /\ last.check_type = "all"))
    => /\ results.status_code = 404 <=> Named.results = None
       /\ results.status_code = 200 => results.body.results = Named.results[1]

(***************************************************************************)
(* C36.  The status config_loaded = true of a session implies that the      *)
(* session's current checker holds the entries of the loaded rule file and  *)
(* that run-checks is accepted.                                             *)
(***************************************************************************)
Claim_C36_ConfigLoadedMeansRunnable ==
    \A session_id \in DOMAIN sessions :
        LET session == sessions[session_id] IN
        SessionStatus(session).config_loaded =>
            /\ session.checker # None
            /\ Declared(session.data_quality_config_path[1].content)
                   \subseteq Entries(session.checker[1].checks_config)
            /\ RunDataQualityChecks(session, "").response.status_code = 200

(***************************************************************************)
(* C37.  An upload_config request that is answered with an error leaves     *)
(* the session as it was: RuleSet, CodeList, recorded paths and files_info. *)
(***************************************************************************)
Claim_C37_RejectedUploadChangesNothing ==
    [][(last'.op = "upload_config" /\ results'.status_code # 200)
       => sessions' = sessions]_vars

(***************************************************************************)
(* C38.  After a delete request the session it names is gone, also when     *)
(* closing the session's connections raises.                                *)
(***************************************************************************)
Claim_C38_CleanupAlwaysRemoves ==
    last.op = "delete_session" => last.session_id \notin DOMAIN sessions

====
